---------------------------- MODULE Spec2Model ----------------------------
(***************************************************************************)
(* Physics-Optics-Explorer: the optics computations and their rendering.   *)
(*                                                                         *)
(*   RayOpticsSim   (src/unnamed/part_002)  single optic, two-lens system  *)
(*   PrismSim       (src/components/PrismSim.tsx)  prism refraction        *)
(*   InterferenceSim(src/unnamed/part_003)  slit diffraction/interference  *)
(*   Equation       (src/unnamed/part_003)  LaTeX to plain text            *)
(*   App            (src/App.tsx)           the lab on screen              *)
(*   geminiService  (src/unnamed/part_000)  the tutor's service calls      *)
(*   AiTutor        (src/components/AiTutor.tsx)  the tutor's transcript   *)
(*                                                                         *)
(* Numbers.  The program computes in IEEE doubles.  Lengths are modelled   *)
(* as integers counting ticks of 1/TicksPerUnit length unit, and every     *)
(* quotient the solvers form is kept as an exact fraction (Fin), with the  *)
(* two non-finite doubles the code can produce, Infinity and NaN, as       *)
(* values of their own.  Trigonometric values are fixed-point numbers with *)
(* TrigScale steps per 1.0.                                                *)
(*                                                                         *)
(* Specifications.  SpecSolver applies the two imaging solvers to inputs   *)
(* on a grid finer than the 0.1 epsilon; SpecPrism and SpecWave are the    *)
(* prism and wave labs driven by their sliders and buttons; SpecLabs is    *)
(* App switching between the optics and prism labs, with the optics lab's  *)
(* memoized values and ray list; SpecEquation renders the Equation         *)
(* component, whose cleanLatex rewrites LaTeX into plain text;             *)
(* SpecService runs one call of the tutor's service step by step           *)
(* (SpecServiceFair: every invocation settles, every timer fires);         *)
(* SpecTutor is the tutor under App's mode and topic buttons, with its     *)
(* requests answered in any order.  A component that a specification does  *)
(* not exercise stays in its idle state.                                   *)
(***************************************************************************)
EXTENDS Integers, Sequences, FiniteSets, TLC

VARIABLES
    \* the lab that App mounts (App.tsx:12)
    activeTopic,
    \* RayOpticsSim state (part_002:30-47)
    objDist, focalLengthMag, opticType, subType, lens2F, lensSep,
    \* RayOpticsSim memoized results (part_002:52-111)
    singleOpticMemo, twoLensMemo,
    \* the rest of RayOpticsSim's state (part_002:30-47) and of its memoized
    \* values: the slab result (114-118) and the ray list (122-265)
    systemMode, objHeight, slabThickness, slabIndex, slabMemo, raysMemo,
    \* PrismSim state (PrismSim.tsx:5-8), its memoized result (11-51) and its
    \* memoized drawing geometry (54-114)
    nPrism, nEnv, angleA, incidentAngle, prismMemo, vizMemo,
    \* InterferenceSim state (part_003:5-8), the separation update queued by
    \* the clamp effect, the effect about to run, and what the draw effect
    \* last put on the canvas
    mode, wavelength, separation, width, pendingSep, wavePc, canvas,
    \* Equation (part_003:181-343): the latex prop, what cleanLatex returns
    \* for it, and what cleanLatex returns for that text in turn
    latex, cleaned, recleaned,
    \* geminiService (part_000): whether process.env.API_KEY is set, and the
    \* service call in progress
    apiKey, svc,
    \* App's mode (App.tsx:11) and AiTutor state (AiTutor.tsx:14-18)
    appMode, messages, input, loading, solutionRevealed,
    \* the tutor's service calls awaiting their responses, the number of
    \* calls it has issued, and the number of mode and topic changes
    requests, issued, session

appVars == <<activeTopic>>

opticsVars == <<objDist, focalLengthMag, opticType, subType, lens2F, lensSep,
                singleOpticMemo, twoLensMemo>>

benchVars ==
    <<systemMode, objHeight, slabThickness, slabIndex, slabMemo, raysMemo>>

prismVars == <<nPrism, nEnv, angleA, incidentAngle, prismMemo, vizMemo>>

waveVars ==
    <<mode, wavelength, separation, width, pendingSep, wavePc, canvas>>

latexVars == <<latex, cleaned, recleaned>>

serviceVars == <<apiKey, svc>>

tutorVars == <<appMode, messages, input, loading, solutionRevealed,
               requests, issued, session>>

aiVars == <<serviceVars, tutorVars>>

vars == <<appVars, opticsVars, benchVars, prismVars, waveVars, latexVars,
          aiVars>>

---------------------------------------------------------------------------
(* Bounds of the model *)

\* ticks per length unit: one tick is 0.05 units, finer than the 0.1 epsilon
TicksPerUnit == 20
\* object distances and lens separations are drawn up to this many ticks
\* either side of the asymptote they are near
MaxOffset == 3
\* fixed-point steps per 1.0 in trigonometric values and radians
TrigScale == 10000
\* the sliders of the prism lab take this many equal steps across their range
PrismIndexSteps == 3
EnvIndexSteps == 2
ApexSteps == 4
IncidentSteps == 5
\* the longest script body X of _{X} and ^{X}
MaxScript == 3
\* the longest token A, B of \frac{A}{B}
MaxToken == 2
\* the deepest nesting of braced scripts
MaxNest == 11
\* the longest of the strings drawn exhaustively from a small alphabet
MaxLen == 3

\* withRetry is called directly with 0..MaxRetries retries
MaxRetries == 3
\* the tutor issues at most this many service calls
MaxRequests == 2
\* App's mode and topic are changed at most this many times
MaxSessions == 1
\* the sliders of the wave lab take this many equal steps across their range
WavelengthSteps == 1
WidthSteps == 2
SeparationSteps == 1

---------------------------------------------------------------------------
(* Values besides numbers *)

\* null
Null == [k |-> "null"]

\* a value that may be null: the number x
Some(x) == [k |-> "num", v |-> x]

\* a memoized result before its first evaluation
Unsolved == [k |-> "unsolved"]

\* the canvas before the draw effect has run
Blank == [k |-> "blank"]

---------------------------------------------------------------------------
(* Doubles as exact fractions *)

Abs(x) == IF x < 0 THEN -x ELSE x

Sign(x) == IF x < 0 THEN -1 ELSE IF x > 0 THEN 1 ELSE 0

RECURSIVE GCD(_, _)
GCD(a, b) == IF b = 0 THEN a ELSE GCD(b, a % b)

\* the finite double n/d, in lowest terms with a positive denominator
Fin(n, d) ==
    LET g == GCD(Abs(n), Abs(d))
    IN  [k |-> "fin", n |-> Sign(d) * (n \div g), d |-> Abs(d) \div g]

Infinity == [k |-> "inf"]

NaN == [k |-> "nan"]

Int2Num(i) == [k |-> "fin", n |-> i, d |-> 1]

isFinite(x) == x.k = "fin"

Neg(x) == [k |-> "fin", n |-> -x.n, d |-> x.d]

\* x - y on finite doubles
Sub(x, y) == Fin(x.n * y.d - y.n * x.d, x.d * y.d)

\* x + y on finite doubles
Add(x, y) == Fin(x.n * y.d + y.n * x.d, x.d * y.d)

\* x * y on finite doubles (common factors are cancelled before multiplying)
Mul(x, y) ==
    LET g1 == GCD(Abs(x.n), y.d)
        g2 == GCD(Abs(y.n), x.d)
        a  == IF g1 = 0 THEN 1 ELSE g1
        b  == IF g2 = 0 THEN 1 ELSE g2
    IN  Fin((x.n \div a) * (y.n \div b), (x.d \div b) * (y.d \div a))

\* x * y where either may be NaN: NaN propagates
Times(x, y) == IF x.k = "nan" \/ y.k = "nan" THEN NaN ELSE Mul(x, y)

\* x / y on finite doubles: 0/0 is NaN, and a nonzero value over zero is
\* infinite
Div(x, y) ==
    IF y.n = 0
    THEN IF x.n = 0 THEN NaN ELSE Infinity
    ELSE Mul(x, [k |-> "fin", n |-> Sign(y.n) * y.d, d |-> Abs(y.n)])

\* x > 0 and x < 0 as JavaScript evaluates them: Infinity > 0, and every
\* comparison with NaN is false
GtZero(x) == x.k = "inf" \/ (x.k = "fin" /\ x.n > 0)

LtZero(x) == x.k = "fin" /\ x.n < 0

\* Math.abs(x) > 0.1 and Math.abs(x) < 0.1 for a finite length x in ticks
AbsGtEps(x) == 10 * Abs(x.n) > TicksPerUnit * x.d

AbsLtEps(x) == 10 * Abs(x.n) < TicksPerUnit * x.d

---------------------------------------------------------------------------
(* RayOpticsSim: the physics engines *)

\* const f = subType === 'plane' ? Infinity : (converging ? 1 : -1) * mag
signedF(fMag, sub) ==
    IF sub = "plane" THEN Infinity
    ELSE Int2Num((IF sub = "converging" THEN 1 ELSE -1) * fMag)

\* imageDistance without the epsilon rule: only the exact asymptote is
\* infinite
imageDistance_exactZero(p, f) ==
    IF Sub(p, f).n # 0 THEN Div(Mul(p, f), Sub(p, f)) ELSE Infinity

\* imageDistance with the denominator's sign slipped: p*f / (p + f)
imageDistance_sum(p, f) ==
    IF AbsGtEps(Sub(p, f)) THEN Div(Mul(p, f), Sub(p, Neg(f))) ELSE Infinity

\* let q = Infinity; if (Math.abs(objDist - f) > 0.1) q = p*f / (p - f)
imageDistance(p, f) ==
    IF AbsGtEps(Sub(p, f)) THEN Div(Mul(p, f), Sub(p, f)) ELSE Infinity

\* isReal with the mirror branch on the opposite sign of q
isReal_mirrorSign(kind, q) ==
    (kind = "lens" /\ GtZero(q)) \/ (kind = "mirror" /\ LtZero(q))

\* isReal = (lens && q > 0) || (mirror && q > 0)
isReal(kind, q) ==
    (kind = "lens" /\ GtZero(q)) \/ (kind = "mirror" /\ GtZero(q))

\* the generic (non-plane) branch of singleOpticResult
generalOptic(p, fMag, kind, sub) ==
    LET f == signedF(fMag, sub)
        q == imageDistance(Int2Num(p), f)
        m == IF isFinite(q) THEN Div(Neg(q), Int2Num(p)) ELSE Infinity
        real == isReal(kind, q)
    IN  [q |-> q, m |-> m, f |-> f,
         type |-> IF real THEN "Real" ELSE "Virtual",
         orientation |-> IF LtZero(m) THEN "Inverted" ELSE "Upright",
         description |-> IF real THEN "Projectable on screen"
                                 ELSE "Visible looking into optic"]

\* planeMirror with the image on the object's side
planeMirror_front(p) ==
    [q |-> Int2Num(p), m |-> Int2Num(1), f |-> Infinity,
     type |-> "Virtual", orientation |-> "Upright",
     description |-> "Virtual image behind mirror"]

\* the plane-mirror special case
planeMirror(p) ==
    [q |-> Int2Num(-p), m |-> Int2Num(1), f |-> Infinity,
     type |-> "Virtual", orientation |-> "Upright",
     description |-> "Virtual image behind mirror"]

singleOpticResult(p, fMag, kind, sub) ==
    IF sub = "plane" THEN planeMirror(p) ELSE generalOptic(p, fMag, kind, sub)

\* collimated with the magnification ratio inverted
collimated_inverted(q1, f1, f2) ==
    [q1 |-> q1, p2 |-> Infinity, q2 |-> Int2Num(f2),
     M_total |-> Div(Int2Num(-f1), Int2Num(f2))]

\* the collimated branch of twoLensResult: q1 is not finite
collimated(q1, f1, f2) ==
    [q1 |-> q1, p2 |-> Infinity, q2 |-> Int2Num(f2),
     M_total |-> Div(Int2Num(-f2), Int2Num(f1))]

\* finiteIntermediate without the epsilon rule at lens 2
finiteIntermediate_noEps(q1, p1, f2, sep) ==
    LET p2 == Sub(Int2Num(sep), q1)
    IN  IF Sub(p2, Int2Num(f2)).n = 0
        THEN [q1 |-> q1, p2 |-> p2, q2 |-> Infinity, M_total |-> Infinity]
        ELSE LET q2 == Div(Mul(p2, Int2Num(f2)), Sub(p2, Int2Num(f2)))
                 m1 == Div(Neg(q1), Int2Num(p1))
                 m2 == Div(Neg(q2), p2)
             IN  [q1 |-> q1, p2 |-> p2, q2 |-> q2, M_total |-> Times(m1, m2)]

\* the branch of twoLensResult for a finite intermediate image
finiteIntermediate(q1, p1, f2, sep) ==
    LET p2 == Sub(Int2Num(sep), q1)
    IN  IF AbsLtEps(Sub(p2, Int2Num(f2)))
        THEN [q1 |-> q1, p2 |-> p2, q2 |-> Infinity, M_total |-> Infinity]
        ELSE LET q2 == Div(Mul(p2, Int2Num(f2)), Sub(p2, Int2Num(f2)))
                 m1 == Div(Neg(q1), Int2Num(p1))
                 m2 == Div(Neg(q2), p2)
             IN  [q1 |-> q1, p2 |-> p2, q2 |-> q2, M_total |-> Times(m1, m2)]

twoLensResult(p1, f1, f2, sep) ==
    LET q1 == imageDistance(Int2Num(p1), Int2Num(f1))
    IN  IF ~isFinite(q1) THEN collimated(q1, f1, f2)
        ELSE finiteIntermediate(q1, p1, f2, sep)

---------------------------------------------------------------------------
(* The solvers as pure functions: inputs drawn from bounded sets *)

\* enum Topic (types.ts:7-11)
LENSES_MIRRORS == "Lenses & Mirrors"

INTERFERENCE == "Interference & Diffraction"

REFRACTION == "Reflection & Refraction"

\* the rest of the optics lab's state while the solvers or another lab are
\* exercised
BenchIdle ==
    /\ systemMode = "single"
    /\ objHeight = 60 * TicksPerUnit
    /\ slabThickness = 150 * TicksPerUnit
    /\ slabIndex = 150
    /\ slabMemo = Unsolved
    /\ raysMemo = Unsolved

\* no equation is being rendered
LatexIdle ==
    /\ latex = <<>>
    /\ cleaned = Unsolved
    /\ recleaned = Unsolved

\* the tutor while the service or a lab is exercised
TutorIdle ==
    /\ appMode = "EXPLORE"
    /\ messages = << >>
    /\ input = ""
    /\ loading = FALSE
    /\ solutionRevealed = FALSE
    /\ requests = {}
    /\ issued = 0
    /\ session = 0

\* no service call is in progress and the tutor is not exercised
AiIdle ==
    /\ apiKey = TRUE
    /\ svc = Unsolved
    /\ TutorIdle

\* the state of the prism lab while another lab is exercised
PrismIdle ==
    /\ nPrism = 150
    /\ nEnv = 100
    /\ angleA = 60
    /\ incidentAngle = 45
    /\ prismMemo = Unsolved
    /\ vizMemo = Unsolved

\* the state of the wave lab while another lab is exercised
WaveIdle ==
    /\ mode = "double"
    /\ wavelength = 532
    /\ separation = 40
    /\ width = 10
    /\ pendingSep = Null
    /\ wavePc = "idle"
    /\ canvas = Blank

Offsets == (-MaxOffset)..MaxOffset

\* focal-length magnitudes: 20 and 30 length units
FocalInputs == {20 * TicksPerUnit, 30 * TicksPerUnit}

\* object distances: near each focal length, and twice the shorter one
ObjDistInputs ==
    {f + o : f \in FocalInputs, o \in Offsets} \cup {40 * TicksPerUnit}

Lens2Inputs == {20 * TicksPerUnit, 25 * TicksPerUnit}

\* separations: on lens 1's image of the far object (40), and near the place
\* that puts that image on lens 2's focal plane (60)
LensSepInputs ==
    {40 * TicksPerUnit} \cup {60 * TicksPerUnit + o : o \in Offsets}

InitSolver ==
    /\ objDist \in ObjDistInputs
    /\ focalLengthMag \in FocalInputs
    /\ opticType \in {"lens", "mirror"}
    /\ subType \in {"converging", "diverging", "plane"}
    /\ lens2F \in Lens2Inputs
    /\ lensSep \in LensSepInputs
    /\ singleOpticMemo = Unsolved
    /\ twoLensMemo = Unsolved
    /\ activeTopic = LENSES_MIRRORS
    /\ BenchIdle
    /\ PrismIdle
    /\ WaveIdle
    /\ LatexIdle
    /\ AiIdle

SolveSingleOptic ==
    /\ singleOpticMemo = Unsolved
    /\ singleOpticMemo' =
           singleOpticResult(objDist, focalLengthMag, opticType, subType)
    /\ UNCHANGED <<objDist, focalLengthMag, opticType, subType, lens2F,
                   lensSep, twoLensMemo>>
    /\ UNCHANGED <<appVars, benchVars, prismVars, waveVars, latexVars>>
    /\ UNCHANGED aiVars

SolveTwoLens ==
    /\ twoLensMemo = Unsolved
    /\ twoLensMemo' = twoLensResult(objDist, focalLengthMag, lens2F, lensSep)
    /\ UNCHANGED <<objDist, focalLengthMag, opticType, subType, lens2F,
                   lensSep, singleOpticMemo>>
    /\ UNCHANGED <<appVars, benchVars, prismVars, waveVars, latexVars>>
    /\ UNCHANGED aiVars

NextSolver == SolveSingleOptic \/ SolveTwoLens

SpecSolver == InitSolver /\ [][NextSolver]_vars

---------------------------------------------------------------------------
(* Fixed-point trigonometry (Math.PI, Math.sin, Math.asin) *)

\* Math.PI as the fraction 355/113
PiNum == 355

PiDen == 113

\* n / d rounded toward zero, for d > 0
Quot(n, d) == Sign(n) * (Abs(n) \div d)

\* pi/2 in fixed-point radians
HalfPi == (PiNum * TrigScale) \div (2 * PiDen)

\* (deg * Math.PI) / 180, for whole degrees
Deg2Rad(deg) == Quot(deg * PiNum * TrigScale, PiDen * 180)

\* (rad * 180) / Math.PI: degrees in steps of 1/TrigScale
Rad2Deg(rad) == Quot(rad * 180 * PiDen, PiNum)

\* sin x for 0 <= x <= pi/2 by its Taylor polynomial up to x^11
SinQuadrant(x) ==
    LET x2  == (x * x) \div TrigScale
        t3  == (x * x2) \div (6 * TrigScale)
        t5  == (t3 * x2) \div (20 * TrigScale)
        t7  == (t5 * x2) \div (42 * TrigScale)
        t9  == (t7 * x2) \div (72 * TrigScale)
        t11 == (t9 * x2) \div (110 * TrigScale)
        v   == x - t3 + t5 - t7 + t9 - t11
    IN  IF v > TrigScale THEN TrigScale ELSE IF v < 0 THEN 0 ELSE v

\* Math.sin for -pi <= x <= pi
Sin(x) ==
    LET a == Abs(x)
        r == IF a > HalfPi THEN 2 * HalfPi - a ELSE a
    IN  Sign(x) * SinQuadrant(IF r < 0 THEN 0 ELSE r)

\* the angle in lo..hi whose sine is the largest not above y
RECURSIVE AsinSearch(_, _, _)
AsinSearch(lo, hi, y) ==
    IF hi - lo <= 1
    THEN IF SinQuadrant(hi) <= y THEN hi ELSE lo
    ELSE LET mid == (lo + hi) \div 2
         IN  IF SinQuadrant(mid) <= y
             THEN AsinSearch(mid, hi, y) ELSE AsinSearch(lo, mid, y)

\* Math.asin for -1 <= y <= 1
Asin(y) == Sign(y) * AsinSearch(0, HalfPi, Abs(y))

\* cos x for 0 <= x <= pi/2 by its Taylor polynomial up to x^10
CosQuadrant(x) ==
    LET x2  == (x * x) \div TrigScale
        u2  == x2 \div 2
        u4  == (u2 * x2) \div (12 * TrigScale)
        u6  == (u4 * x2) \div (30 * TrigScale)
        u8  == (u6 * x2) \div (56 * TrigScale)
        u10 == (u8 * x2) \div (90 * TrigScale)
        v   == TrigScale - u2 + u4 - u6 + u8 - u10
    IN  IF v > TrigScale THEN TrigScale ELSE IF v < 0 THEN 0 ELSE v

\* Math.cos for 0 <= x <= pi
Cos(x) == IF x > HalfPi THEN -CosQuadrant(2 * HalfPi - x) ELSE CosQuadrant(x)

---------------------------------------------------------------------------
(* PrismSim: the physics logic.  Indices are in hundredths. *)

\* entry test with the index ratio inverted: (nPrism / nEnv) * sin(theta1)
entryTIR_inverted(n1, n2, theta1Rad) ==
    Abs(n2 * Sin(theta1Rad)) > n1 * TrigScale

\* Math.abs((nEnv / nPrism) * Math.sin(theta1Rad)) > 1
entryTIR(n1, n2, theta1Rad) ==
    Abs(n1 * Sin(theta1Rad)) > n2 * TrigScale

\* Math.abs((nPrism / nEnv) * Math.sin(theta3Rad)) > 1
exitTIR(n1, n2, theta3Rad) ==
    Abs(n2 * Sin(theta3Rad)) > n1 * TrigScale

\* criticalAngle offered whenever nPrism >= nEnv
criticalAngle_orEqual(n1, n2) ==
    IF n2 >= n1 THEN Some(Rad2Deg(Asin(Quot(n1 * TrigScale, n2)))) ELSE Null

\* nPrism > nEnv ? Math.asin(nEnv / nPrism) * 180 / Math.PI : null
criticalAngle(n1, n2) ==
    IF n2 > n1 THEN Some(Rad2Deg(Asin(Quot(n1 * TrigScale, n2)))) ELSE Null

\* the result of the prism computation for environment index n1, prism
\* index n2, apex angle A and incident angle theta1 (degrees)
prismResult(n2, n1, A, theta1) ==
    LET theta1Rad == Deg2Rad(theta1)
    IN  IF entryTIR(n1, n2, theta1Rad)
        THEN [isTIR |-> TRUE, stage |-> "entry"]
        ELSE
        LET sinTheta2 == Quot(n1 * Sin(theta1Rad), n2)
            theta2Rad == Asin(sinTheta2)
            angleARad == Deg2Rad(A)
            theta3Rad == angleARad - theta2Rad
            isTIR     == exitTIR(n1, n2, theta3Rad)
            sinTheta4 == Quot(n2 * Sin(theta3Rad), n1)
            theta4Rad == IF isTIR THEN 0 ELSE Asin(sinTheta4)
            deviationRad == theta1Rad + theta4Rad - angleARad
        IN  [theta1Rad |-> theta1Rad,
             theta2Rad |-> theta2Rad,
             theta3Rad |-> theta3Rad,
             theta4Rad |-> theta4Rad,
             deviationDeg |-> Rad2Deg(deviationRad),
             isTIR |-> isTIR,
             stage |-> IF isTIR THEN "exit" ELSE "complete",
             criticalAngle |-> criticalAngle(n1, n2)]

\* (result.theta1Rad || 0): an angle the result does not carry counts as 0
OrZero(rec, fld) == IF fld \in DOMAIN rec THEN rec[fld] ELSE 0

\* const apexY = 150; const prismHeight = 250; const hit1Ratio = 0.4
apexY == 150

prismHeight == 250

hit1Ratio == Fin(2, 5)

\* the drawing geometry for apex angle A (degrees) and a result.  Lengths
\* are fractions of ticks, angles fixed-point radians.  The face from the
\* apex to the base corner (-w, -h) has direction atan2(-h, -w) with
\* w = h tan(A/2), which is -(pi/2 + A/2); the face to (w, -h) has
\* direction -(pi/2 - A/2).  The points rayStart, hit2, rayEnd and tirEnd
\* lie at fixed distances along the ray directions and are represented by
\* those directions.
viz(A, result) ==
    LET angleARad == Deg2Rad(A)
        half == angleARad \div 2
        baseHalfWidth ==
            Fin(prismHeight * TicksPerUnit * Sin(half), Cos(half))
        p1 == [x |-> Int2Num(0), y |-> Int2Num(apexY * TicksPerUnit)]
        p2 == [x |-> Neg(baseHalfWidth),
               y |-> Int2Num((apexY - prismHeight) * TicksPerUnit)]
        p3 == [x |-> baseHalfWidth,
               y |-> Int2Num((apexY - prismHeight) * TicksPerUnit)]
        hit1 == [x |-> Add(p1.x, Mul(Sub(p2.x, p1.x), hit1Ratio)),
                 y |-> Add(p1.y, Mul(Sub(p2.y, p1.y), hit1Ratio))]
        faceLeftAngle == -(HalfPi + half)
        normal1Angle == faceLeftAngle + HalfPi
        faceRightAngle == -(HalfPi - half)
        normal2Angle == faceRightAngle - HalfPi
    IN  [p1 |-> p1, p2 |-> p2, p3 |-> p3, hit1 |-> hit1,
         normal1Angle |-> normal1Angle,
         normal2Angle |-> normal2Angle,
         rayInAngle |->
             normal1Angle + 2 * HalfPi + OrZero(result, "theta1Rad"),
         rayInsideAngle |->
             normal1Angle + 2 * HalfPi + OrZero(result, "theta2Rad"),
         rayExitAngle |-> normal2Angle + OrZero(result, "theta4Rad"),
         tirAngle |->
             normal2Angle + 2 * HalfPi - OrZero(result, "theta3Rad")]

---------------------------------------------------------------------------
(* PrismSim: the sliders *)

\* slider ranges (the index sliders in hundredths)
PrismIndexMin == 100
PrismIndexMax == 250
EnvIndexMin == 100
EnvIndexMax == 150
ApexMin == 30
ApexMax == 90
IncidentMin == 0
IncidentMax == 85

\* steps + 1 slider positions spread evenly over lo..hi, both ends included
Positions(lo, hi, steps) == {lo + (k * (hi - lo)) \div steps : k \in 0..steps}

PrismIndexValues == Positions(PrismIndexMin, PrismIndexMax, PrismIndexSteps)

EnvIndexValues == Positions(EnvIndexMin, EnvIndexMax, EnvIndexSteps)

ApexValues == Positions(ApexMin, ApexMax, ApexSteps)

IncidentValues == Positions(IncidentMin, IncidentMax, IncidentSteps)

\* the state of the optics lab while another lab is exercised
OpticsIdle ==
    /\ objDist = 200 * TicksPerUnit
    /\ focalLengthMag = 100 * TicksPerUnit
    /\ opticType = "lens"
    /\ subType = "converging"
    /\ lens2F = 100 * TicksPerUnit
    /\ lensSep = 300 * TicksPerUnit
    /\ singleOpticMemo = Unsolved
    /\ twoLensMemo = Unsolved

\* the names of the values that differ between two renders' inputs
Changed(old, new) == {n \in DOMAIN old : old[n] # new[n]}

\* useMemo dependency lists: result (PrismSim.tsx:51) and viz (114); viz
\* depends on the result object, which is a new object whenever the result
\* memo is evaluated
resultDeps == {"nPrism", "nEnv", "angleA", "incidentAngle"}

vizDeps == {"angleA", "result"}

\* the state the prism memos read
PrismInputs ==
    [nPrism |-> nPrism, nEnv |-> nEnv, angleA |-> angleA,
     incidentAngle |-> incidentAngle]

\* the useState initial values (PrismSim.tsx:5-8)
PrismDefaults ==
    [nPrism |-> 150, nEnv |-> 100, angleA |-> 60, incidentAngle |-> 45]

\* the next state of the prism lab: its inputs and its two memos
PrismBecomes(in, result, geometry) ==
    /\ nPrism' = in.nPrism
    /\ nEnv' = in.nEnv
    /\ angleA' = in.angleA
    /\ incidentAngle' = in.incidentAngle
    /\ prismMemo' = result
    /\ vizMemo' = geometry

\* the first render of PrismSim: both memos are evaluated
MountPrism ==
    /\ nPrism = 150
    /\ nEnv = 100
    /\ angleA = 60
    /\ incidentAngle = 45
    /\ prismMemo = prismResult(150, 100, 60, 45)
    /\ vizMemo = viz(60, prismResult(150, 100, 60, 45))

InitPrism ==
    /\ activeTopic = REFRACTION
    /\ MountPrism
    /\ OpticsIdle
    /\ BenchIdle
    /\ WaveIdle
    /\ LatexIdle
    /\ AiIdle

\* a render of PrismSim with the state `new`: each memo is evaluated again
\* when one of its dependencies differs from the previous render's
RenderPrism(new) ==
    LET changed == Changed(PrismInputs, new)
        resultRuns == changed \cap resultDeps # {}
        result == IF resultRuns
                  THEN prismResult(new.nPrism, new.nEnv, new.angleA,
                                   new.incidentAngle)
                  ELSE prismMemo
        vizRuns ==
            (changed \cup (IF resultRuns THEN {"result"} ELSE {}))
                \cap vizDeps # {}
    IN  PrismBecomes(new, result,
                     IF vizRuns THEN viz(new.angleA, result) ELSE vizMemo)

SetNPrism(v) ==
    /\ activeTopic = REFRACTION
    /\ RenderPrism([PrismInputs EXCEPT !.nPrism = v])
    /\ UNCHANGED <<appVars, opticsVars, benchVars, waveVars, latexVars>>
    /\ UNCHANGED aiVars

SetNEnv(v) ==
    /\ activeTopic = REFRACTION
    /\ RenderPrism([PrismInputs EXCEPT !.nEnv = v])
    /\ UNCHANGED <<appVars, opticsVars, benchVars, waveVars, latexVars>>
    /\ UNCHANGED aiVars

SetAngleA(v) ==
    /\ activeTopic = REFRACTION
    /\ RenderPrism([PrismInputs EXCEPT !.angleA = v])
    /\ UNCHANGED <<appVars, opticsVars, benchVars, waveVars, latexVars>>
    /\ UNCHANGED aiVars

SetIncidentAngle(v) ==
    /\ activeTopic = REFRACTION
    /\ RenderPrism([PrismInputs EXCEPT !.incidentAngle = v])
    /\ UNCHANGED <<appVars, opticsVars, benchVars, waveVars, latexVars>>
    /\ UNCHANGED aiVars

NextPrism ==
    \/ \E v \in PrismIndexValues : SetNPrism(v)
    \/ \E v \in EnvIndexValues : SetNEnv(v)
    \/ \E v \in ApexValues : SetAngleA(v)
    \/ \E v \in IncidentValues : SetIncidentAngle(v)

SpecPrism == InitPrism /\ [][NextPrism]_vars

---------------------------------------------------------------------------
(* InterferenceSim: the intensity of one canvas sample *)

\* <canvas width={600}>
CanvasWidth == 600
\* for (let x = 0; x < w; x += 2)
SampleStep == 2
\* screenWidthPhysical = 0.15 m, in micrometres
ScreenWidthMicrons == 150000
\* screenDist = 1.0 m, in micrometres
screenDist == 1000000
\* lambda = wavelength * 1e-9 against a = width * 1e-6: nanometres per
\* micrometre
NmPerMicron == 1000

\* the loop's x values
SampleXs == {x \in 0..(CanvasWidth - 1) : x % SampleStep = 0}

\* yPos = (x - w/2) * metersPerPixel, in micrometres
yPos(x) == Fin((2 * x - CanvasWidth) * ScreenWidthMicrons, 2 * CanvasWidth)

\* sinTheta = yPos / L
sinTheta(x) == Div(yPos(x), Int2Num(screenDist))

\* (slit * sinTheta) / lambda, the phase in units of pi, for a slit size in
\* micrometres and a wavelength in nanometres
phaseOverPi(slit, lambda, x) ==
    Div(Mul(Int2Num(NmPerMicron * slit), sinTheta(x)), Int2Num(lambda))

\* the phase of ph (in units of pi) in fixed-point radians
phaseRad(ph) == Quot(2 * HalfPi * ph.n, ph.d)

\* the phase of ph reduced to [0, pi), in fixed-point radians
phaseModPi(ph) == (2 * HalfPi * (Abs(ph.n) % ph.d)) \div ph.d

\* diffraction = beta === 0 ? 1 : Math.pow(Math.sin(beta) / beta, 2)
diffraction(a, lambda, x) ==
    LET beta == phaseOverPi(a, lambda, x)
    IN  IF beta.n = 0 THEN TrigScale
        ELSE LET ratio == Quot(Sin(phaseModPi(beta)) * TrigScale,
                               Abs(phaseRad(beta)))
             IN  (ratio * ratio) \div TrigScale

\* interference with the sine in place of the cosine
interference_sine(md, d, lambda, x) ==
    LET s == Sin(phaseModPi(phaseOverPi(d, lambda, x)))
    IN  IF md = "double" THEN (s * s) \div TrigScale ELSE TrigScale

\* interference with the cosine term in both modes
interference_bothModes(md, d, lambda, x) ==
    LET c == Cos(phaseModPi(phaseOverPi(d, lambda, x)))
    IN  (c * c) \div TrigScale

\* interference = mode === 'double' ? Math.pow(Math.cos(alpha), 2) : 1
interference(md, d, lambda, x) ==
    LET c == Cos(phaseModPi(phaseOverPi(d, lambda, x)))
    IN  IF md = "double" THEN (c * c) \div TrigScale ELSE TrigScale

\* intensity = diffraction * interference
intensity(md, d, a, lambda, x) ==
    (diffraction(a, lambda, x) * interference(md, d, lambda, x))
        \div TrigScale

\* what the draw effect paints: the intensity graph over the sampled x, the
\* strips of the screen view it fills (intensity > 0.01), and the values it
\* sampled with
drawCanvas(md, d, a, lambda) ==
    LET graph == [x \in SampleXs |-> intensity(md, d, a, lambda, x)]
    IN  [k |-> "drawn",
         graph |-> graph,
         strips |-> {x \in SampleXs : 100 * graph[x] > TrigScale},
         sampled |-> [mode |-> md, separation |-> d, width |-> a,
                      wavelength |-> lambda]]

---------------------------------------------------------------------------
(* InterferenceSim: sliders, mode buttons and effects *)

WavelengthMin == 380
WavelengthMax == 750
WidthMin == 2
WidthMax == 50
SeparationMax == 100

WavelengthValues == Positions(WavelengthMin, WavelengthMax, WavelengthSteps)

WidthValues == Positions(WidthMin, WidthMax, WidthSteps)

\* the separation slider's range starts at width + 5
SeparationValues == Positions(width + 5, SeparationMax, SeparationSteps)

InitWave ==
    /\ mode = "double"
    /\ wavelength = 532
    /\ separation = 40
    /\ width = 10
    /\ pendingSep = Null
    /\ wavePc = "clamp"
    /\ canvas = Blank
    /\ activeTopic = INTERFERENCE
    /\ OpticsIdle
    /\ BenchIdle
    /\ PrismIdle
    /\ LatexIdle
    /\ AiIdle

\* onClick={() => setMode(m)}: both effects depend on mode
SetMode(m) ==
    /\ wavePc = "idle"
    /\ m # mode
    /\ mode' = m
    /\ wavePc' = "clamp"
    /\ UNCHANGED <<wavelength, separation, width, pendingSep, canvas>>
    /\ UNCHANGED <<appVars, opticsVars, benchVars, prismVars, latexVars>>
    /\ UNCHANGED aiVars

\* Wavelength onChange: only the draw effect depends on wavelength
SetWavelength(v) ==
    /\ wavePc = "idle"
    /\ v # wavelength
    /\ wavelength' = v
    /\ wavePc' = "draw"
    /\ UNCHANGED <<mode, separation, width, pendingSep, canvas>>
    /\ UNCHANGED <<appVars, opticsVars, benchVars, prismVars, latexVars>>
    /\ UNCHANGED aiVars

\* Slit Width onChange
SetWidth(v) ==
    /\ wavePc = "idle"
    /\ v # width
    /\ width' = v
    /\ wavePc' = "clamp"
    /\ UNCHANGED <<mode, wavelength, separation, pendingSep, canvas>>
    /\ UNCHANGED <<appVars, opticsVars, benchVars, prismVars, latexVars>>
    /\ UNCHANGED aiVars

\* Slit Separation onChange (the slider is rendered in double mode only):
\* setSeparation(Math.max(width + 5, value))
SetSeparation(v) ==
    /\ wavePc = "idle"
    /\ mode = "double"
    /\ LET d == IF v > width + 5 THEN v ELSE width + 5
       IN  /\ d # separation
           /\ separation' = d
    /\ wavePc' = "clamp"
    /\ UNCHANGED <<mode, wavelength, width, pendingSep, canvas>>
    /\ UNCHANGED <<appVars, opticsVars, benchVars, prismVars, latexVars>>
    /\ UNCHANGED aiVars

\* the clamp effect setting the separation to the width itself
ClampEffect_toWidth ==
    /\ wavePc = "clamp"
    /\ pendingSep' = IF mode = "double" /\ separation <= width
                     THEN Some(width) ELSE pendingSep
    /\ wavePc' = "draw"
    /\ UNCHANGED <<mode, wavelength, separation, width, canvas>>
    /\ UNCHANGED <<appVars, opticsVars, benchVars, prismVars, latexVars>>
    /\ UNCHANGED aiVars

\* the first effect: if (mode === 'double' && separation <= width)
\* setSeparation(width + 5); the update is queued, the draw effect of the
\* same commit runs next
ClampEffect ==
    /\ wavePc = "clamp"
    /\ pendingSep' = IF mode = "double" /\ separation <= width
                     THEN Some(width + 5) ELSE pendingSep
    /\ wavePc' = "draw"
    /\ UNCHANGED <<mode, wavelength, separation, width, canvas>>
    /\ UNCHANGED <<appVars, opticsVars, benchVars, prismVars, latexVars>>
    /\ UNCHANGED aiVars

\* the second effect paints the canvas from the values of this render
DrawEffect ==
    /\ wavePc = "draw"
    /\ canvas' = drawCanvas(mode, separation, width, wavelength)
    /\ wavePc' = IF pendingSep = Null THEN "idle" ELSE "render"
    /\ UNCHANGED <<mode, wavelength, separation, width, pendingSep>>
    /\ UNCHANGED <<appVars, opticsVars, benchVars, prismVars, latexVars>>
    /\ UNCHANGED aiVars

\* the render that the queued setSeparation causes: separation changes, so
\* both effects run again
Rerender ==
    /\ wavePc = "render"
    /\ separation' = pendingSep.v
    /\ pendingSep' = Null
    /\ wavePc' = "clamp"
    /\ UNCHANGED <<mode, wavelength, width, canvas>>
    /\ UNCHANGED <<appVars, opticsVars, benchVars, prismVars, latexVars>>
    /\ UNCHANGED aiVars

NextWave ==
    \/ \E m \in {"single", "double"} : SetMode(m)
    \/ \E v \in WavelengthValues : SetWavelength(v)
    \/ \E v \in WidthValues : SetWidth(v)
    \/ \E v \in SeparationValues : SetSeparation(v)
    \/ ClampEffect
    \/ DrawEffect
    \/ Rerender

SpecWave == InitWave /\ [][NextWave]_vars

---------------------------------------------------------------------------
(* RayOpticsSim: the slab result and the ray list *)

\* the largest r in lo..hi with r * r <= n
RECURSIVE SqrtSearch(_, _, _)
SqrtSearch(lo, hi, n) ==
    IF hi - lo <= 1
    THEN IF hi * hi <= n THEN hi ELSE lo
    ELSE LET mid == (lo + hi) \div 2
         IN  IF mid * mid <= n
             THEN SqrtSearch(mid, hi, n) ELSE SqrtSearch(lo, mid, n)

\* Math.atan of the finite slope m, as asin(m / sqrt(1 + m^2))
Atan(m) ==
    Asin(Quot(m.n * TrigScale,
              SqrtSearch(0, 46340, m.n * m.n + m.d * m.d)))

\* Math.tan for -pi/2 < x < pi/2, as a slope
Tan(x) == Fin(Sin(x), Cos(Abs(x)))

\* shift = slabThickness * (1 - 1 / slabIndex), the index in hundredths
slabResult(thickness, index) ==
    [shift |-> Mul(Int2Num(thickness), Sub(Int2Num(1), Fin(100, index)))]

\* const VIEW_LIMIT = 800
VIEW_LIMIT == 800

\* const hitY = 20
slabHitY == 20

\* a ray segment (its stroke and dash styling left out)
Seg(x1, y1, x2, y2) == [x1 |-> x1, y1 |-> y1, x2 |-> x2, y2 |-> y2]

\* y0 + slope * dx
along(y0, slope, dx) == Add(y0, Mul(slope, dx))

\* the segments of a diverging lens's rays, given fMag = Math.abs(f) and the
\* height hitY3 at which the ray aimed at the far focus meets the lens
divergingSegs(objX, objY, fMag, zero, limit, hitY3) ==
    << Seg(objX, objY, zero, objY),
       Seg(zero, objY, limit, along(objY, Div(objY, fMag), limit)),
       Seg(Neg(fMag), zero, zero, objY),
       Seg(objX, objY, limit, Mul(Div(objY, objX), limit)),
       Seg(objX, objY, zero, hitY3),
       Seg(zero, hitY3, fMag, zero),
       Seg(zero, hitY3, limit, hitY3),
       Seg(Neg(limit), hitY3, zero, hitY3) >>

\* slope3 = (0 - objY) / (fMag - objX); hitY3 = objY + slope3 * (0 - objX)
divergingFrom(objX, objY, fMag, zero, limit) ==
    divergingSegs(objX, objY, fMag, zero, limit,
                  along(objY, Div(Sub(zero, objY), Sub(fMag, objX)),
                        Sub(zero, objX)))

\* the rays of a diverging lens (part_002:133-171)
divergingLensRays(objX, objY, f) ==
    divergingFrom(objX, objY, [f EXCEPT !.n = Abs(f.n)], Int2Num(0),
                  Int2Num(VIEW_LIMIT * TicksPerUnit))

\* ray 1 of a curved optic: from the optic through the focus to exitX, and
\* its backward extension to backX when the image side needs it
focalRay(objY, slope, zero, exitX, backX, extended) ==
    << Seg(zero, objY, exitX, along(objY, slope, exitX)) >> \o
    (IF extended
     THEN << Seg(zero, objY, backX, along(objY, slope, backX)) >>
     ELSE << >>)

\* ray 2 of a lens: through the centre, undeviated
centreRayLens(objX, objY, slope, zero, limit, q) ==
    << Seg(objX, objY, limit, Mul(slope, limit)) >> \o
    (IF LtZero(q)
     THEN << Seg(zero, zero, Neg(limit), Mul(Neg(slope), limit)) >>
     ELSE << >>)

\* ray 2 of a mirror: to the vertex and reflected with the opposite slope
centreRayMirror(objX, objY, slope, zero, limit) ==
    << Seg(objX, objY, zero, zero),
       Seg(zero, zero, Neg(limit), Mul(slope, Neg(limit))),
       Seg(zero, zero, limit, Mul(Neg(slope), limit)) >>

\* const direction = opticType === 'lens' ? 1 : -1
direction(kind) == IF kind = "lens" THEN 1 ELSE -1

convergingOrMirrorFrom(objX, objY, kind, sub, f, q, zero, limit) ==
    << Seg(objX, objY, zero, objY) >>
    \o (IF sub = "plane"
        THEN << Seg(zero, objY, Neg(limit), objY) >>
        ELSE focalRay(objY, Div(Neg(objY), f), zero,
                      Mul(Int2Num(direction(kind)), limit),
                      Mul(Int2Num(-direction(kind)), limit),
                      (kind = "lens" /\ LtZero(f)) \/ kind = "mirror"))
    \o (IF kind = "lens"
        THEN centreRayLens(objX, objY, Div(objY, objX), zero, limit, q)
        ELSE centreRayMirror(objX, objY, Neg(Div(objY, objX)), zero,
                             limit))

\* the rays of a converging lens or a mirror (part_002:173-215)
convergingOrMirrorRays(objX, objY, kind, sub, f, q) ==
    convergingOrMirrorFrom(objX, objY, kind, sub, f, q, Int2Num(0),
                           Int2Num(VIEW_LIMIT * TicksPerUnit))

\* the segments through the slab, given the height exitY at which the ray
\* leaves the second face; slopeOut = slopeIn
slabSegs(startX, startY, face1X, face2X, hitY, slopeIn, limit, exitY) ==
    << Seg(startX, startY, face1X, hitY),
       Seg(face1X, hitY, face2X, exitY),
       Seg(face2X, exitY, limit, along(exitY, slopeIn, Sub(limit, face2X))),
       Seg(face1X, hitY, limit, along(hitY, slopeIn, Sub(limit, face1X))) >>

\* theta1 = atan(slopeIn); theta2 = asin(sin(theta1) / slabIndex);
\* exitY = hitY + tan(theta2) * (face2X - face1X)
slabFrom(startX, startY, face1X, face2X, hitY, slopeIn, limit, index) ==
    slabSegs(startX, startY, face1X, face2X, hitY, slopeIn, limit,
             along(hitY,
                   Tan(Asin(Quot(Sin(Atan(slopeIn)) * 100, index))),
                   Sub(face2X, face1X)))

\* slopeIn = (hitY - startY) / (face1X - startX)
slabBetween(startX, startY, face1X, face2X, hitY, limit, index) ==
    slabFrom(startX, startY, face1X, face2X, hitY,
             Div(Sub(hitY, startY), Sub(face1X, startX)), limit, index)

\* the rays through the glass slab (part_002:217-238)
slabRays(startX, startY, thickness, index) ==
    slabBetween(startX, startY, Fin(-thickness, 2), Fin(thickness, 2),
                Int2Num(slabHitY * TicksPerUnit),
                Int2Num(VIEW_LIMIT * TicksPerUnit), index)

\* a ray that meets lens 2 at height hitY with slope m and leaves it with
\* slope m - hitY / f2
throughLens2(fromX, fromY, L2X, hitY, m, f2, limit) ==
    << Seg(fromX, fromY, L2X, hitY),
       Seg(L2X, hitY, limit,
           along(hitY, Sub(m, Div(hitY, f2)), Sub(limit, L2X))) >>

\* the parallel ray (slope m1 after lens 1) and the ray through the centre
\* of lens 1 (slope mC1)
twoLensFrom(objX, objY, L1X, L2X, m1, mC1, f2, limit) ==
    << Seg(objX, objY, L1X, objY) >>
    \o throughLens2(L1X, objY, L2X, along(objY, m1, Sub(L2X, L1X)), m1, f2,
                    limit)
    \o throughLens2(objX, objY, L2X, Mul(mC1, Sub(L2X, L1X)), mC1, f2,
                    limit)

\* the rays through the two-lens system (part_002:240-262)
twoLensRays(objX, objY, sep, f1, f2) ==
    twoLensFrom(objX, objY, Int2Num(0), Int2Num(sep),
                Div(Neg(objY), Int2Num(f1)), Div(objY, objX), Int2Num(f2),
                Int2Num(VIEW_LIMIT * TicksPerUnit))

\* the ray list for the state `in` and the single-optic result's f and q
rays(in, f, q) ==
    IF in.systemMode = "single"
    THEN IF in.opticType = "lens" /\ in.subType = "diverging"
         THEN divergingLensRays(Int2Num(-in.objDist),
                                Int2Num(in.objHeight), f)
         ELSE convergingOrMirrorRays(Int2Num(-in.objDist),
                                     Int2Num(in.objHeight), in.opticType,
                                     in.subType, f, q)
    ELSE IF in.systemMode = "slab"
    THEN slabRays(Int2Num(-in.objDist), Int2Num(in.objHeight),
                  in.slabThickness, in.slabIndex)
    ELSE twoLensRays(Int2Num(-in.objDist), Int2Num(in.objHeight),
                     in.lensSep, in.focalLengthMag, in.lens2F)

---------------------------------------------------------------------------
(* RayOpticsSim and PrismSim under App: buttons, sliders and memos *)

\* useMemo dependency lists (part_002:73, 111, 118, 265)
singleOpticDeps == {"objDist", "focalLengthMag", "opticType", "subType"}

twoLensDeps == {"objDist", "focalLengthMag", "lens2F", "lensSep"}

slabDeps == {"slabThickness", "slabIndex"}

\* the ray list's dependencies without the object height
raysDeps_noObjHeight ==
    {"systemMode", "objDist", "focalLengthMag", "lens2F", "lensSep",
     "slabIndex", "slabThickness", "opticType", "subType",
     "singleOpticResult.f", "singleOpticResult.q"}

raysDeps ==
    {"systemMode", "objDist", "objHeight", "focalLengthMag", "lens2F",
     "lensSep", "slabIndex", "slabThickness", "opticType", "subType",
     "singleOpticResult.f", "singleOpticResult.q"}

\* the state the optics lab's memos read
BenchInputs ==
    [systemMode |-> systemMode, objDist |-> objDist,
     objHeight |-> objHeight, focalLengthMag |-> focalLengthMag,
     opticType |-> opticType, subType |-> subType, lens2F |-> lens2F,
     lensSep |-> lensSep, slabThickness |-> slabThickness,
     slabIndex |-> slabIndex]

\* the useState initial values (part_002:30-47)
BenchDefaults ==
    [systemMode |-> "single", objDist |-> 200 * TicksPerUnit,
     objHeight |-> 60 * TicksPerUnit,
     focalLengthMag |-> 100 * TicksPerUnit,
     opticType |-> "lens", subType |-> "converging",
     lens2F |-> 100 * TicksPerUnit, lensSep |-> 300 * TicksPerUnit,
     slabThickness |-> 150 * TicksPerUnit, slabIndex |-> 150]

\* the memoized values for the state `in`, given its single-optic result
derivedWith(in, single) ==
    [single |-> single,
     twoLens |-> twoLensResult(in.objDist, in.focalLengthMag,
                               in.lens2F, in.lensSep),
     slab |-> slabResult(in.slabThickness, in.slabIndex),
     rays |-> rays(in, single.f, single.q)]

\* the four memoized values evaluated from scratch for the state `in`
BenchDerived(in) ==
    derivedWith(in, singleOpticResult(in.objDist, in.focalLengthMag,
                                      in.opticType, in.subType))

\* slider positions the model drives the optics lab's sliders to (each
\* slider's default and one other position of its range)
ObjDistValues == {200 * TicksPerUnit, 150 * TicksPerUnit}

ObjHeightValues == {60 * TicksPerUnit, 30 * TicksPerUnit}

FocalLengthValues == {100 * TicksPerUnit, 50 * TicksPerUnit}

Lens2FValues == {100 * TicksPerUnit, 60 * TicksPerUnit}

LensSepValues == {300 * TicksPerUnit, 200 * TicksPerUnit}

SlabIndexValues == {150, 200}

SlabThicknessValues == {150 * TicksPerUnit, 120 * TicksPerUnit}

\* the next state of the optics lab: its inputs and its four memos
BenchBecomes(in, d) ==
    /\ systemMode' = in.systemMode
    /\ objDist' = in.objDist
    /\ objHeight' = in.objHeight
    /\ focalLengthMag' = in.focalLengthMag
    /\ opticType' = in.opticType
    /\ subType' = in.subType
    /\ lens2F' = in.lens2F
    /\ lensSep' = in.lensSep
    /\ slabThickness' = in.slabThickness
    /\ slabIndex' = in.slabIndex
    /\ singleOpticMemo' = d.single
    /\ twoLensMemo' = d.twoLens
    /\ slabMemo' = d.slab
    /\ raysMemo' = d.rays

\* the memos of a lab that is not mounted
NoneDerived ==
    [single |-> Unsolved, twoLens |-> Unsolved, slab |-> Unsolved,
     rays |-> Unsolved]

\* the optics lab holds the inputs `in` and the memos `d`
BenchIs(in, d) ==
    /\ systemMode = in.systemMode
    /\ objDist = in.objDist
    /\ objHeight = in.objHeight
    /\ focalLengthMag = in.focalLengthMag
    /\ opticType = in.opticType
    /\ subType = in.subType
    /\ lens2F = in.lens2F
    /\ lensSep = in.lensSep
    /\ slabThickness = in.slabThickness
    /\ slabIndex = in.slabIndex
    /\ singleOpticMemo = d.single
    /\ twoLensMemo = d.twoLens
    /\ slabMemo = d.slab
    /\ raysMemo = d.rays

\* the first render of RayOpticsSim: every memo is evaluated
MountBench == BenchIs(BenchDefaults, BenchDerived(BenchDefaults))

\* App starts on the optics lab
InitLabs ==
    /\ activeTopic = LENSES_MIRRORS
    /\ MountBench
    /\ PrismIdle
    /\ WaveIdle
    /\ LatexIdle
    /\ AiIdle

\* the derived dependencies of the ray list that differ from the previous
\* render's, `single` being this render's single-optic result
derivedChanges(single) ==
    (IF single.f # singleOpticMemo.f THEN {"singleOpticResult.f"} ELSE {})
    \cup (IF single.q # singleOpticMemo.q
          THEN {"singleOpticResult.q"} ELSE {})

\* the memos after a render with the state `new`, of whose values those in
\* `changed` differ from the previous render's
memosAfter(new, changed, single) ==
    [single |-> single,
     twoLens |->
         IF changed \cap twoLensDeps # {}
         THEN twoLensResult(new.objDist, new.focalLengthMag,
                            new.lens2F, new.lensSep)
         ELSE twoLensMemo,
     slab |->
         IF changed \cap slabDeps # {}
         THEN slabResult(new.slabThickness, new.slabIndex)
         ELSE slabMemo,
     rays |->
         IF (changed \cup derivedChanges(single)) \cap raysDeps # {}
         THEN rays(new, single.f, single.q)
         ELSE raysMemo]

\* the single-optic memo is evaluated first: the ray list depends on it
rendered(new, changed) ==
    memosAfter(new, changed,
               IF changed \cap singleOpticDeps # {}
               THEN singleOpticResult(new.objDist, new.focalLengthMag,
                                      new.opticType, new.subType)
               ELSE singleOpticMemo)

\* a render of RayOpticsSim with the state `new`: each memo is evaluated
\* again when one of its dependencies differs from the previous render's
RenderBench(new) ==
    BenchBecomes(new, rendered(new, Changed(BenchInputs, new)))

\* an event handler of the mounted RayOpticsSim that sets its state to `new`
BenchEvent(new) ==
    /\ activeTopic = LENSES_MIRRORS
    /\ RenderBench(new)
    /\ UNCHANGED <<appVars, prismVars, waveVars, latexVars>>
    /\ UNCHANGED aiVars

\* onClick={() => setSystemMode(m)}
SetSystemMode(m) == BenchEvent([BenchInputs EXCEPT !.systemMode = m])

\* the Lens and Mirror buttons, rendered in single mode: setOpticType only
SetOpticType(t) ==
    /\ systemMode = "single"
    /\ BenchEvent([BenchInputs EXCEPT !.opticType = t])

\* the shape buttons, rendered in single mode; Plane is disabled while the
\* optic is a lens
SetSubType(t) ==
    /\ systemMode = "single"
    /\ ~(opticType = "lens" /\ t = "plane")
    /\ BenchEvent([BenchInputs EXCEPT !.subType = t])

SetObjDist(v) == BenchEvent([BenchInputs EXCEPT !.objDist = v])

SetObjHeight(v) == BenchEvent([BenchInputs EXCEPT !.objHeight = v])

\* the Focal Length slider (single mode, not for a plane optic) and the
\* Lens 1 Focal Length slider (two-lens mode) set the same state
SetFocalLengthMag(v) ==
    /\ \/ systemMode = "single" /\ subType # "plane"
       \/ systemMode = "two-lens"
    /\ BenchEvent([BenchInputs EXCEPT !.focalLengthMag = v])

SetLens2F(v) ==
    /\ systemMode = "two-lens"
    /\ BenchEvent([BenchInputs EXCEPT !.lens2F = v])

SetLensSep(v) ==
    /\ systemMode = "two-lens"
    /\ BenchEvent([BenchInputs EXCEPT !.lensSep = v])

SetSlabIndex(v) ==
    /\ systemMode = "slab"
    /\ BenchEvent([BenchInputs EXCEPT !.slabIndex = v])

SetSlabThickness(v) ==
    /\ systemMode = "slab"
    /\ BenchEvent([BenchInputs EXCEPT !.slabThickness = v])

\* onClick={() => setActiveTopic(t)} from the optics lab to the prism lab:
\* RayOpticsSim is unmounted and PrismSim mounted with its initial state
OpenPrismLab ==
    /\ activeTopic = LENSES_MIRRORS
    /\ activeTopic' = REFRACTION
    /\ BenchBecomes(BenchDefaults, NoneDerived)
    /\ PrismBecomes(PrismDefaults,
                    prismResult(150, 100, 60, 45),
                    viz(60, prismResult(150, 100, 60, 45)))
    /\ UNCHANGED <<waveVars, latexVars>>
    /\ UNCHANGED aiVars

\* and back: PrismSim is unmounted and RayOpticsSim mounted
OpenOpticsLab ==
    /\ activeTopic = REFRACTION
    /\ activeTopic' = LENSES_MIRRORS
    /\ PrismBecomes(PrismDefaults, Unsolved, Unsolved)
    /\ BenchBecomes(BenchDefaults, BenchDerived(BenchDefaults))
    /\ UNCHANGED <<waveVars, latexVars>>
    /\ UNCHANGED aiVars

NextLabs ==
    \/ \E m \in {"single", "two-lens", "slab"} : SetSystemMode(m)
    \/ \E t \in {"lens", "mirror"} : SetOpticType(t)
    \/ \E t \in {"converging", "diverging", "plane"} : SetSubType(t)
    \/ \E v \in ObjDistValues : SetObjDist(v)
    \/ \E v \in ObjHeightValues : SetObjHeight(v)
    \/ \E v \in FocalLengthValues : SetFocalLengthMag(v)
    \/ \E v \in Lens2FValues : SetLens2F(v)
    \/ \E v \in LensSepValues : SetLensSep(v)
    \/ \E v \in SlabIndexValues : SetSlabIndex(v)
    \/ \E v \in SlabThicknessValues : SetSlabThickness(v)
    \/ NextPrism
    \/ OpenPrismLab
    \/ OpenOpticsLab

SpecLabs == InitLabs /\ [][NextLabs]_vars

---------------------------------------------------------------------------
(* Equation: cleanLatex (part_003:190-294)                                 *)
(*                                                                         *)
(* A string is a sequence of characters.  An ASCII character is the string *)
(* of that one character; a character outside ASCII is written as its name *)
(* in angle brackets, "<lambda>" for the Greek letter, "<sub 1>" for the   *)
(* subscript one, "<sup 2>" for the superscript two, "<sqrt>" for the      *)
(* radical sign.                                                           *)

\* the character classes of the regular expressions
Letters ==
    {"a", "b", "c", "d", "e", "f", "g", "h", "i", "j", "k", "l", "m", "n",
     "o", "p", "q", "r", "s", "t", "u", "v", "w", "x", "y", "z", "A", "B",
     "C", "D", "E", "F", "G", "H", "I", "J", "K", "L", "M", "N", "O", "P",
     "Q", "R", "S", "T", "U", "V", "W", "X", "Y", "Z"}

Digits ==
    {"0", "1", "2", "3", "4", "5", "6", "7", "8", "9"}

\* the characters of the block \u0370-\u03FF that the symbol table produces
GreekBlock ==
    {"<lambda>", "<theta>", "<delta>", "<Delta>", "<mu>", "<alpha>",
     "<beta>", "<gamma>", "<pi>", "<rho>", "<sigma>", "<phi>", "<psi>",
     "<omega>", "<Omega>", "<epsilon>", "<tau>", "<Sigma>"}

\* [a-zA-Z0-9]
AlphaNumeric == Letters \cup Digits

\* [\d\w]
WordChars == AlphaNumeric \cup {"_"}

\* \s
WhiteSpace == {" "}

\* [a-zA-Z0-9\u0370-\u03FF]
TokenChars == AlphaNumeric \cup GreekBlock

\* the global symbol map, in the order of the object literal
symbolMap ==
    << [key |-> <<"\\", "l", "a", "m", "b", "d", "a">>,
        glyph |-> <<"<lambda>">>],
       [key |-> <<"\\", "t", "h", "e", "t", "a">>,
        glyph |-> <<"<theta>">>],
       [key |-> <<"\\", "d", "e", "l", "t", "a">>,
        glyph |-> <<"<delta>">>],
       [key |-> <<"\\", "D", "e", "l", "t", "a">>,
        glyph |-> <<"<Delta>">>],
       [key |-> <<"\\", "m", "u">>,
        glyph |-> <<"<mu>">>],
       [key |-> <<"\\", "a", "l", "p", "h", "a">>,
        glyph |-> <<"<alpha>">>],
       [key |-> <<"\\", "b", "e", "t", "a">>,
        glyph |-> <<"<beta>">>],
       [key |-> <<"\\", "g", "a", "m", "m", "a">>,
        glyph |-> <<"<gamma>">>],
       [key |-> <<"\\", "p", "i">>,
        glyph |-> <<"<pi>">>],
       [key |-> <<"\\", "r", "h", "o">>,
        glyph |-> <<"<rho>">>],
       [key |-> <<"\\", "s", "i", "g", "m", "a">>,
        glyph |-> <<"<sigma>">>],
       [key |-> <<"\\", "p", "h", "i">>,
        glyph |-> <<"<phi>">>],
       [key |-> <<"\\", "p", "s", "i">>,
        glyph |-> <<"<psi>">>],
       [key |-> <<"\\", "o", "m", "e", "g", "a">>,
        glyph |-> <<"<omega>">>],
       [key |-> <<"\\", "O", "m", "e", "g", "a">>,
        glyph |-> <<"<Omega>">>],
       [key |-> <<"\\", "e", "p", "s", "i", "l", "o", "n">>,
        glyph |-> <<"<epsilon>">>],
       [key |-> <<"\\", "t", "a", "u">>,
        glyph |-> <<"<tau>">>],
       [key |-> <<"\\", "s", "i", "n">>,
        glyph |-> <<"s", "i", "n">>],
       [key |-> <<"\\", "c", "o", "s">>,
        glyph |-> <<"c", "o", "s">>],
       [key |-> <<"\\", "t", "a", "n">>,
        glyph |-> <<"t", "a", "n">>],
       [key |-> <<"\\", "a", "r", "c", "s", "i", "n">>,
        glyph |-> <<"a", "r", "c", "s", "i", "n">>],
       [key |-> <<"\\", "a", "r", "c", "c", "o", "s">>,
        glyph |-> <<"a", "r", "c", "c", "o", "s">>],
       [key |-> <<"\\", "a", "r", "c", "t", "a", "n">>,
        glyph |-> <<"a", "r", "c", "t", "a", "n">>],
       [key |-> <<"\\", "l", "n">>,
        glyph |-> <<"l", "n">>],
       [key |-> <<"\\", "l", "o", "g">>,
        glyph |-> <<"l", "o", "g">>],
       [key |-> <<"\\", "a", "p", "p", "r", "o", "x">>,
        glyph |-> <<"<approx>">>],
       [key |-> <<"\\", "c", "d", "o", "t">>,
        glyph |-> <<"<middot>">>],
       [key |-> <<"\\", "t", "i", "m", "e", "s">>,
        glyph |-> <<"<times>">>],
       [key |-> <<"\\", "l", "e">>,
        glyph |-> <<"<le>">>],
       [key |-> <<"\\", "g", "e">>,
        glyph |-> <<"<ge>">>],
       [key |-> <<"\\", "p", "m">>,
        glyph |-> <<"<plusminus>">>],
       [key |-> <<"\\", "m", "p">>,
        glyph |-> <<"<minusplus>">>],
       [key |-> <<"\\", "i", "n", "f", "t", "y">>,
        glyph |-> <<"<infinity>">>],
       [key |-> <<"\\", "t", "o">>,
        glyph |-> <<"<rightarrow>">>],
       [key |-> <<"\\", "r", "i", "g", "h", "t", "a", "r", "r", "o", "w">>,
        glyph |-> <<"<rightarrow>">>],
       [key |-> <<"\\", "l", "e", "f", "t", "a", "r", "r", "o", "w">>,
        glyph |-> <<"<leftarrow>">>],
       [key |-> <<"\\", "d", "e", "g", "r", "e", "e">>,
        glyph |-> <<"<degree>">>],
       [key |-> <<"\\", "c", "i", "r", "c">>,
        glyph |-> <<"<degree>">>],
       [key |-> <<"\\", "i", "n", "t">>,
        glyph |-> <<"<integral>">>],
       [key |-> <<"\\", "o", "i", "n", "t">>,
        glyph |-> <<"<contour>">>],
       [key |-> <<"\\", "s", "u", "m">>,
        glyph |-> <<"<Sigma>">>],
       [key |-> <<"\\", "p", "a", "r", "t", "i", "a", "l">>,
        glyph |-> <<"<partial>">>],
       [key |-> <<"\\", "n", "a", "b", "l", "a">>,
        glyph |-> <<"<nabla>">>] >>

\* the subscript and superscript maps
subMap ==
    "0" :> "<sub 0>" @@ "1" :> "<sub 1>" @@ "2" :> "<sub 2>" @@
    "3" :> "<sub 3>" @@ "4" :> "<sub 4>" @@ "5" :> "<sub 5>" @@
    "6" :> "<sub 6>" @@ "7" :> "<sub 7>" @@ "8" :> "<sub 8>" @@
    "9" :> "<sub 9>" @@ "+" :> "<sub +>" @@ "-" :> "<sub ->" @@
    "=" :> "<sub =>" @@ "(" :> "<sub (>" @@ ")" :> "<sub )>" @@
    "a" :> "<sub a>" @@ "e" :> "<sub e>" @@ "h" :> "<sub h>" @@
    "i" :> "<sub i>" @@ "k" :> "<sub k>" @@ "l" :> "<sub l>" @@
    "m" :> "<sub m>" @@ "n" :> "<sub n>" @@ "o" :> "<sub o>" @@
    "p" :> "<sub p>" @@ "r" :> "<sub r>" @@ "s" :> "<sub s>" @@
    "t" :> "<sub t>" @@ "u" :> "<sub u>" @@ "v" :> "<sub v>" @@
    "x" :> "<sub x>"

supMap ==
    "0" :> "<sup 0>" @@ "1" :> "<sup 1>" @@ "2" :> "<sup 2>" @@
    "3" :> "<sup 3>" @@ "4" :> "<sup 4>" @@ "5" :> "<sup 5>" @@
    "6" :> "<sup 6>" @@ "7" :> "<sup 7>" @@ "8" :> "<sup 8>" @@
    "9" :> "<sup 9>" @@ "+" :> "<sup +>" @@ "-" :> "<sup ->" @@
    "=" :> "<sup =>" @@ "(" :> "<sup (>" @@ ")" :> "<sup )>" @@
    "n" :> "<sup n>" @@ "i" :> "<sup i>" @@ "x" :> "<sup x>" @@
    "y" :> "<sup y>"

\* str.split('').map(c => subMap[c] || c).join('')
toSub(str) ==
    [i \in DOMAIN str |->
        IF str[i] \in DOMAIN subMap THEN subMap[str[i]] ELSE str[i]]

toSup(str) ==
    [i \in DOMAIN str |->
        IF str[i] \in DOMAIN supMap THEN supMap[str[i]] ELSE str[i]]

\* the part of s from index i on
From(s, i) == SubSeq(s, i, Len(s))

StartsWith(s, prefix) ==
    Len(s) >= Len(prefix) /\ SubSeq(s, 1, Len(prefix)) = prefix

\* an attempt to match at the start of a string: the length matched (0
\* when there is no match) and the replacement
NoMatch == [len |-> 0, out |-> << >>]

\* a function on 1..n as the sequence of its n values
tabulated(f) == SubSeq(f, 1, Len(f))

\* the positions a left-to-right search visits from the positions in `set`,
\* where jump[i] is the position that follows position i; each round
\* doubles the number of steps that `jump` covers
RECURSIVE visited(_, _)
visitedMore(set, more, jump) ==
    IF more = set THEN set
    ELSE visited(more, tabulated([i \in DOMAIN jump |-> jump[jump[i]]]))

visited(set, jump) ==
    visitedMore(set, set \cup {jump[i] : i \in set}, jump)

\* pieces[lo] \o .. \o pieces[hi]
RECURSIVE join(_, _, _)
join(pieces, lo, hi) ==
    IF lo > hi THEN << >>
    ELSE IF lo = hi THEN pieces[lo]
    ELSE LET mid == (lo + hi) \div 2
         IN  join(pieces, lo, mid) \o join(pieces, mid + 1, hi)

\* the global replacement of the JavaScript string methods, given the
\* attempt m[i] at every position i of s: the matches are taken left to
\* right, each search resuming after the previous match, and the
\* replacements are not searched again
replaceAll(s, m) ==
    LET n == Len(s)
        next == tabulated([i \in 1..(n + 1) |->
                    IF i > n THEN i
                    ELSE IF m[i].len > 0 THEN i + m[i].len ELSE i + 1])
        starts == visited({1}, next) \ {n + 1}
        pieces == tabulated([i \in 1..n |->
                      IF i \notin starts THEN << >>
                      ELSE IF m[i].len > 0 THEN m[i].out ELSE <<s[i]>>])
    IN  IF \A i \in 1..n : m[i].len = 0 THEN s ELSE join(pieces, 1, n)

\* s.split(key).join(glyph)
splitJoin(s, key, glyph) ==
    replaceAll(s, tabulated([i \in 1..Len(s) |->
                      IF StartsWith(From(s, i), key)
                      THEN [len |-> Len(key), out |-> glyph]
                      ELSE NoMatch]))

\* Object.keys(map).sort((a, b) => b.length - a.length): the sort is
\* stable, so keys of one length keep the order of the literal
entriesOfLength(n) == SelectSeq(symbolMap, LAMBDA e : Len(e.key) = n)

RECURSIVE longestFirst(_)
longestFirst(n) ==
    IF n = 0 THEN << >> ELSE entriesOfLength(n) \o longestFirst(n - 1)

keys ==
    LET lengths == {Len(symbolMap[i].key) : i \in DOMAIN symbolMap}
    IN  longestFirst(CHOOSE n \in lengths : \A m \in lengths : m <= n)

\* for (const key of keys) s = s.split(key).join(map[key]); the empty
\* string holds no key
RECURSIVE applyKeys(_, _)
applyKeys(s, ks) ==
    IF ks = << >> \/ s = << >> THEN s
    ELSE applyKeys(splitJoin(s, Head(ks).key, Head(ks).glyph), Tail(ks))

\* the least element of a set of indices, or `none` when the set is empty
leastOr(indices, none) ==
    IF indices = {} THEN none
    ELSE CHOOSE j \in indices : \A k \in indices : j <= k

\* the greatest element of a set of indices, or `none` when it is empty
greatestOr(indices, none) ==
    IF indices = {} THEN none
    ELSE CHOOSE j \in indices : \A k \in indices : j >= k

\* the first index from i on that holds no character of `class` (the
\* index after the string when every character from i on is in `class`)
firstOutside(s, i, class) ==
    leastOr({j \in i..(Len(s) + 1) : j > Len(s) \/ s[j] \notin class}, i)

\* the first index from i on that holds no white space
skipSpaces(s, i) == firstOutside(s, i, WhiteSpace)

\* the last index of the longest run of characters of `class` that starts
\* at index i (i - 1 when there is none)
runEnd(s, i, class) == firstOutside(s, i, class) - 1

\* the last index of the longest run of characters other than braces that
\* starts at index i: [^{}]+
noBraceEnd(s, i) ==
    leastOr({j \in i..(Len(s) + 1) : j > Len(s) \/ s[j] \in {"{", "}"}}, i)
    - 1

\* the last index up to i that holds no white space (0 when there is none)
backSpaces(s, i) ==
    greatestOr({j \in 0..i : j = 0 \/ s[j] \notin WhiteSpace}, i)

\* \{([^{}]+)\} with the opening brace at index i and the run of other
\* characters ending at index e: the group and the index after the match
groupUpTo(s, i, e) ==
    IF e > i /\ e < Len(s) /\ s[e + 1] = "}"
    THEN [ok |-> TRUE, inner |-> SubSeq(s, i + 1, e), next |-> e + 2]
    ELSE [ok |-> FALSE]

\* \{([^{}]+)\} at index i
bracedGroup(s, i) ==
    IF i <= Len(s) /\ s[i] = "{"
    THEN groupUpTo(s, i, noBraceEnd(s, i + 1))
    ELSE [ok |-> FALSE]

\* /\\[,;!:]/ -> ' '
matchSpacing(s) ==
    IF Len(s) >= 2 /\ s[1] = "\\" /\ s[2] \in {",", ";", "!", ":"}
    THEN [len |-> 2, out |-> <<" ">>] ELSE NoMatch

\* /\s+/ -> ' '
matchSpaces(s) ==
    IF s[1] \in WhiteSpace
    THEN [len |-> runEnd(s, 1, WhiteSpace), out |-> <<" ">>] ELSE NoMatch

\* '$1' for the group g
textOf(g) ==
    IF g.ok THEN [len |-> g.next - 1, out |-> g.inner] ELSE NoMatch

\* /\\text\s*\{([^{}]+)\}/ -> '$1'
matchText(s) ==
    IF StartsWith(s, <<"\\", "t", "e", "x", "t">>)
    THEN textOf(bracedGroup(s, skipSpaces(s, 6)))
    ELSE NoMatch

\* '<sqrt>($1)' for the group g
sqrtOf(g) ==
    IF g.ok
    THEN [len |-> g.next - 1,
          out |-> <<"<sqrt>", "(">> \o g.inner \o <<")">>]
    ELSE NoMatch

\* /\\sqrt\s*\{([^{}]+)\}/ -> '<sqrt>($1)'
matchSqrt(s) ==
    IF StartsWith(s, <<"\\", "s", "q", "r", "t">>)
    THEN sqrtOf(bracedGroup(s, skipSpaces(s, 6)))
    ELSE NoMatch

\* 'root($1, $2)' for the bracket opening at index i and closing at index
\* j, and the group g
rootOf(s, i, j, g) ==
    IF /\ i <= Len(s) /\ s[i] = "["
       /\ j > i + 1 /\ s[j] = "]"
       /\ g.ok
    THEN [len |-> g.next - 1,
          out |-> <<"r", "o", "o", "t", "(">> \o SubSeq(s, i + 1, j - 1)
                  \o <<",", " ">> \o g.inner \o <<")">>]
    ELSE NoMatch

\* the bracket at index i and the first brace at index b: the closing
\* bracket is the last character before the brace that is no white space
rootAt(s, i, b) == rootOf(s, i, backSpaces(s, b - 1), bracedGroup(s, b))

\* the bracket at index i: the opening brace is the first brace after it
rootFrom(s, i) ==
    IF i <= Len(s) THEN rootAt(s, i, noBraceEnd(s, i + 1) + 1) ELSE NoMatch

\* /\\sqrt\s*\[([^{}]+)\]\s*\{([^{}]+)\}/ -> 'root($1, $2)'
matchRoot(s) ==
    IF StartsWith(s, <<"\\", "s", "q", "r", "t">>)
    THEN rootFrom(s, skipSpaces(s, 6))
    ELSE NoMatch

\* '($1)/($2)' for the groups g1 and g2
fracOf(g1, g2) ==
    IF g2.ok
    THEN [len |-> g2.next - 1,
          out |-> <<"(">> \o g1.inner \o <<")", "/", "(">>
                  \o g2.inner \o <<")">>]
    ELSE NoMatch

\* the second group of a fraction after its first group g1
fracAfter(s, g1) ==
    IF g1.ok THEN fracOf(g1, bracedGroup(s, skipSpaces(s, g1.next)))
    ELSE NoMatch

\* /\\frac\s*\{([^{}]+)\}\s*\{([^{}]+)\}/ -> '($1)/($2)'
matchFrac(s) ==
    IF StartsWith(s, <<"\\", "f", "r", "a", "c">>)
    THEN fracAfter(s, bracedGroup(s, skipSpaces(s, 6)))
    ELSE NoMatch

\* every character of `inner` is a key of `map`
everyMapped(inner, map) == \A i \in DOMAIN inner : inner[i] \in DOMAIN map

\* allMapped ? toSub(inner) : `_${inner}` for the group g
subOf(g) ==
    IF g.ok
    THEN [len |-> g.next - 1,
          out |-> IF everyMapped(g.inner, subMap)
                  THEN toSub(g.inner) ELSE <<"_">> \o g.inner]
    ELSE NoMatch

\* /_\{([^{}]+)\}/ -> allMapped ? toSub(inner) : `_${inner}`
matchSubBraced(s) ==
    IF s[1] = "_" THEN subOf(bracedGroup(s, 2)) ELSE NoMatch

\* a braced superscript whose fallback keeps the caret and drops the
\* parentheses
supOf_noParens(g) ==
    IF g.ok
    THEN [len |-> g.next - 1,
          out |-> IF g.inner = <<"<degree>">> THEN <<"<degree>">>
                  ELSE IF everyMapped(g.inner, supMap)
                  THEN toSup(g.inner)
                  ELSE <<"^">> \o g.inner]
    ELSE NoMatch

\* inner === '<degree>' ? '<degree>'
\*     : allMapped ? toSup(inner) : `^(${inner})` for the group g
supOf(g) ==
    IF g.ok
    THEN [len |-> g.next - 1,
          out |-> IF g.inner = <<"<degree>">> THEN <<"<degree>">>
                  ELSE IF everyMapped(g.inner, supMap)
                  THEN toSup(g.inner)
                  ELSE <<"^", "(">> \o g.inner \o <<")">>]
    ELSE NoMatch

\* /\^\{([^{}]+)\}/ -> the superscript of the group
matchSupBraced(s) ==
    IF s[1] = "^" THEN supOf(bracedGroup(s, 2)) ELSE NoMatch

\* a simple subscript that converts digits only
matchSubChar_digitsOnly(s) ==
    IF Len(s) >= 2 /\ s[1] = "_" /\ s[2] \in Digits
    THEN [len |-> 2, out |-> <<subMap[s[2]]>>]
    ELSE NoMatch

\* /_([a-zA-Z0-9])/ -> subMap[char] || `_${char}`
matchSubChar(s) ==
    IF Len(s) >= 2 /\ s[1] = "_" /\ s[2] \in AlphaNumeric
    THEN [len |-> 2,
          out |-> IF s[2] \in DOMAIN subMap
                  THEN <<subMap[s[2]]>> ELSE <<"_", s[2]>>]
    ELSE NoMatch

\* /\^([a-zA-Z0-9])/ -> supMap[char] || `^${char}`
matchSupChar(s) ==
    IF Len(s) >= 2 /\ s[1] = "^" /\ s[2] \in AlphaNumeric
    THEN [len |-> 2,
          out |-> IF s[2] \in DOMAIN supMap
                  THEN <<supMap[s[2]]>> ELSE <<"^", s[2]>>]
    ELSE NoMatch

\* a fraction polish whose tokens are single characters
fracParensOf_singleChar(s, e1, e2) ==
    IF /\ e1 = 2
       /\ Len(s) >= e1 + 3
       /\ SubSeq(s, e1 + 1, e1 + 3) = <<")", "/", "(">>
       /\ e2 = e1 + 4
       /\ e2 < Len(s) /\ s[e2 + 1] = ")"
    THEN [len |-> e2 + 1,
          out |-> SubSeq(s, 2, e1) \o <<"/">> \o SubSeq(s, e1 + 4, e2)]
    ELSE NoMatch

\* '$1/$2' for the first token ending at index e1 and the second at e2
fracParensOf(s, e1, e2) ==
    IF /\ e1 >= 2
       /\ Len(s) >= e1 + 3
       /\ SubSeq(s, e1 + 1, e1 + 3) = <<")", "/", "(">>
       /\ e2 >= e1 + 4
       /\ e2 < Len(s) /\ s[e2 + 1] = ")"
    THEN [len |-> e2 + 1,
          out |-> SubSeq(s, 2, e1) \o <<"/">> \o SubSeq(s, e1 + 4, e2)]
    ELSE NoMatch

\* the second token of the polish after the first token ending at e1
fracParensAfter(s, e1) ==
    fracParensOf(s, e1, runEnd(s, e1 + 4, TokenChars))

\* /\((T+)\)\/\((T+)\)/ -> '$1/$2' with T = [a-zA-Z0-9\u0370-\u03FF]
matchFracParens(s) ==
    IF s[1] = "(" THEN fracParensAfter(s, runEnd(s, 2, TokenChars))
    ELSE NoMatch

\* /\^\(([\d\w])\)/ -> '^$1'
matchSupParen(s) ==
    IF /\ Len(s) >= 4 /\ s[1] = "^" /\ s[2] = "("
       /\ s[3] \in WordChars /\ s[4] = ")"
    THEN [len |-> 4, out |-> <<"^", s[3]>>] ELSE NoMatch

\* the attempt of the regular expression `regex` at the start of s
matchAt(regex, s) ==
    CASE regex = "spacing" -> matchSpacing(s)
      [] regex = "spaces" -> matchSpaces(s)
      [] regex = "text" -> matchText(s)
      [] regex = "sqrt" -> matchSqrt(s)
      [] regex = "root" -> matchRoot(s)
      [] regex = "frac" -> matchFrac(s)
      [] regex = "subBraced" -> matchSubBraced(s)
      [] regex = "supBraced" -> matchSupBraced(s)
      [] regex = "subChar" -> matchSubChar(s)
      [] regex = "supChar" -> matchSupChar(s)
      [] regex = "fracParens" -> matchFracParens(s)
      [] regex = "supParen" -> matchSupParen(s)

\* s.replace(/regex/g, ..)
replace(s, regex) ==
    replaceAll(s, tabulated([i \in 1..Len(s) |-> matchAt(regex, From(s, i))]))

\* 1. initial cleanup (part_003:194-200)
initialCleanup(str) ==
    LET s1 == replace(str, "spacing")
        s2 == splitJoin(s1, <<"\\", " ">>, <<" ">>)
        s3 == replace(s2, "spaces")
        s4 == splitJoin(s3, <<"\\", "l", "e", "f", "t">>, << >>)
        s5 == splitJoin(s4, <<"\\", "r", "i", "g", "h", "t">>, << >>)
        s6 == splitJoin(s5, <<"\\", "m", "a", "t", "h", "r", "m">>, << >>)
    IN  splitJoin(s6, <<"\\", "m", "a", "t", "h", "b", "f">>, << >>)

\* one pass of the structural loop's body (part_003:250-277)
pass(s) ==
    LET s1 == replace(s, "text")
        s2 == replace(s1, "sqrt")
        s3 == replace(s2, "root")
        s4 == replace(s3, "frac")
        s5 == replace(s4, "subBraced")
    IN  replace(s5, "supBraced")

\* const maxLoops = 10
maxLoops == 10


\* the loop without its ceiling: while (s !== oldS)
RECURSIVE structuralLoop_noCeiling(_, _)
afterPass_noCeiling(oldS, s, loops) ==
    IF s # oldS
    THEN structuralLoop_noCeiling(s, loops)
    ELSE [s |-> s, loops |-> loops]

structuralLoop_noCeiling(oldS, loops) ==
    afterPass_noCeiling(oldS, pass(oldS), loops + 1)

\* do { oldS = s; loops++; .. } while (s !== oldS && loops < maxLoops),
\* entered with `loops` passes done: the final string and pass count
RECURSIVE structuralLoop(_, _)
\* while (s !== oldS && loops < maxLoops)
afterPass(oldS, s, loops) ==
    IF s # oldS /\ loops < maxLoops
    THEN structuralLoop(s, loops)
    ELSE [s |-> s, loops |-> loops]

structuralLoop(oldS, loops) == afterPass(oldS, pass(oldS), loops + 1)

\* s.trim()
trimStart(s) == From(s, skipSpaces(s, 1))

trimEnd(s) == SubSeq(s, 1, backSpaces(s, Len(s)))

trim(s) == trimEnd(trimStart(s))

\* 5. - 7. simple scripts, final cleanup and polish (part_003:282-291)
finish(s) ==
    LET s1 == replace(s, "subChar")
        s2 == replace(s1, "supChar")
        s3 == SelectSeq(s2, LAMBDA c : c \notin {"{", "}"})
        s4 == trim(replace(s3, "spaces"))
        s5 == replace(s4, "fracParens")
    IN  replace(s5, "supParen")

\* steps 5 - 7 on the loop's result
finished(r) == [s |-> finish(r.s), loops |-> r.loops]

\* cleanLatex with the number of passes its loop made
cleanLatexRun(str) ==
    finished(structuralLoop(applyKeys(initialCleanup(str), keys), 0))

cleanLatex(str) == cleanLatexRun(str).s

---------------------------------------------------------------------------
(* Equation: cleanLatex applied to bounded sets of strings *)

\* every string of 1..n characters of `alphabet`
Strings(alphabet, n) == UNION {[1..k -> alphabet] : k \in 1..n}

\* script bodies X of _{X} and ^{X}: "2" and "n" are in both script maps,
\* "e" in the subscript map only, "f" and "/" in neither
ScriptChars == {"2", "n", "e", "f", "/"}

ScriptBodies == Strings(ScriptChars, MaxScript)

\* base_{X} and base^{X}
braced(base, marker, X) == <<base, marker, "{">> \o X \o <<"}">>

\* the fraction tokens A and B of \frac{A}{B}: runs of letters, digits and
\* Greek letters
FracTokenChars == {"a", "2", "<lambda>"}

FracTokens == Strings(FracTokenChars, MaxToken)

frac(A, B) ==
    <<"\\", "f", "r", "a", "c", "{">> \o A \o <<"}", "{">> \o B \o <<"}">>

\* command names that are not in the symbol map
UnsupportedNames ==
    { <<"l", "e", "q">>, <<"g", "e", "q">>, <<"c", "d", "o", "t", "s">>,
      <<"t", "a", "n", "h">>, <<"n", "e", "q">>, <<"h", "b", "a", "r">>,
      <<"v", "e", "c">>, <<"q", "u", "a", "d">>, <<"s", "i", "m">>,
      <<"s", "i", "n", "h">>, <<"l", "l">>, <<"p", "r", "o", "d">> }

\* the names of the symbol map's commands
SupportedNames == {Tail(symbolMap[i].key) : i \in DOMAIN symbolMap}

command(name) == <<"\\">> \o name

\* "b" inside `depth` braced subscripts: _{_{ .. b .. }}
RECURSIVE nested(_)
nested(depth) ==
    IF depth = 0 THEN <<"b">> ELSE <<"_", "{">> \o nested(depth - 1) \o <<"}">>

\* every short string over script markers, braces, a parenthesis and a
\* letter
ShortChars == {"x", "_", "^", "{", "}", "("}

ShortStrings == Strings(ShortChars, MaxLen)

\* further equations: the radical, a root, \text, spacing commands,
\* \left and \right, a degree sign, parenthesized exponents, two
\* fractions, an unclosed subscript and a subscript with a sign
Examples ==
    { <<"\\", "s", "q", "r", "t", "{", "x", "}">>,
      <<"\\", "s", "q", "r", "t", "[", "3", "]", "{", "x", "}">>,
      <<"\\", "t", "e", "x", "t", "{", "a", " ", "b", "}">>,
      <<"a", "\\", ",", "b", "\\", " ", " ", "c">>,
      <<"\\", "l", "e", "f", "t", "(", "x", "\\", "r", "i", "g", "h", "t",
        ")">>,
      <<"9", "0", "^", "{", "<degree>", "}">>,
      <<"9", "0", "^", "{", "\\", "c", "i", "r", "c", "}">>,
      <<"x", "^", "(", "2", ")">>,
      <<"x", "^", "{", "a", "}", "/", "(", "y", ")">>,
      frac(<<"a">>, <<"b">>),
      frac(<<"\\", "l", "a", "m", "b", "d", "a">>, <<"2">>),
      <<"_", "{", "1">>,
      braced("f", "_", <<"n", "+", "2">>) }

EquationInputs ==
    {braced("f", "_", X) : X \in ScriptBodies}
    \cup {braced("x", "^", X) : X \in ScriptBodies}
    \cup {<<"n", "_", c>> : c \in AlphaNumeric}
    \cup {<<"x", "^", c>> : c \in AlphaNumeric}
    \cup {frac(A, B) : A \in FracTokens, B \in FracTokens}
    \cup {command(name) : name \in UnsupportedNames \cup SupportedNames}
    \cup {nested(depth) : depth \in 0..MaxNest}
    \cup ShortStrings
    \cup Examples

InitEquation ==
    /\ latex \in EquationInputs
    /\ cleaned = Unsolved
    /\ recleaned = Unsolved
    /\ activeTopic = LENSES_MIRRORS
    /\ OpticsIdle
    /\ BenchIdle
    /\ PrismIdle
    /\ WaveIdle
    /\ AiIdle

\* const cleanText = cleanLatex(latex)
RenderEquation ==
    /\ cleaned = Unsolved
    /\ cleaned' = cleanLatexRun(latex)
    /\ UNCHANGED <<latex, recleaned>>
    /\ UNCHANGED <<appVars, opticsVars, benchVars, prismVars, waveVars>>
    /\ UNCHANGED aiVars

\* cleanLatex applied to the text it returned
RenderCleanText ==
    /\ cleaned # Unsolved
    /\ recleaned = Unsolved
    /\ recleaned' = cleanLatexRun(cleaned.s)
    /\ UNCHANGED <<latex, cleaned>>
    /\ UNCHANGED <<appVars, opticsVars, benchVars, prismVars, waveVars>>
    /\ UNCHANGED aiVars

NextEquation == RenderEquation \/ RenderCleanText

SpecEquation == InitEquation /\ [][NextEquation]_vars


---------------------------------------------------------------------------
(* geminiService (part_000): getClient, withRetry and the three calls      *)
(*                                                                         *)
(* One invocation of client.models.generateContent either rejects with an  *)
(* error or resolves with a response.  Of a response the model keeps what  *)
(* the callers read: "full" is a text with a **Solution:** part (for the   *)
(* image model, parts with inlineData), "plain" a text without one (parts  *)
(* with no inlineData), "empty" a response with no text and no parts, and  *)
(* "malformed" a value whose properties cannot be read.                    *)

Bodies == {"full", "plain", "empty", "malformed"}

Errors == {"error 1", "error 2"}

Resolves(body) == [ok |-> TRUE, body |-> body]

Rejects(e) == [ok |-> FALSE, error |-> e]

Outcomes == {Resolves(b) : b \in Bodies} \cup {Rejects(e) : e \in Errors}

\* a settled promise
Resolved(v) == [k |-> "resolved", v |-> v]

Rejected(e) == [k |-> "rejected", e |-> e]

Pending == [k |-> "pending"]

\* retries = 3, delay = 1000
defaultRetries == 3

defaultDelay == 1000

\* a call of withRetry(operation, retries, delay) about to invoke the
\* operation; calls and waits record the invocations' outcomes and the
\* timers set so far
retryStart(retries, delay) ==
    [pc |-> "call", retries |-> retries, delay |-> delay, calls |-> << >>,
     waits |-> << >>, out |-> Pending]

\* withRetry that gives up one failure early: if (retries <= 1) throw error
retryCall_oneFewer(r, outcome) ==
    IF outcome.ok
    THEN [r EXCEPT !.calls = Append(@, outcome), !.pc = "done",
                   !.out = Resolved(outcome.body)]
    ELSE IF r.retries <= 1
    THEN [r EXCEPT !.calls = Append(@, outcome), !.pc = "done",
                   !.out = Rejected(outcome.error)]
    ELSE [r EXCEPT !.calls = Append(@, outcome), !.pc = "wait",
                   !.waits = Append(@, r.delay)]

\* try { return await operation() } catch (error) { if (retries <= 0) throw
\* error; await new Promise(resolve => setTimeout(resolve, delay)); .. }
retryCall(r, outcome) ==
    IF outcome.ok
    THEN [r EXCEPT !.calls = Append(@, outcome), !.pc = "done",
                   !.out = Resolved(outcome.body)]
    ELSE IF r.retries <= 0
    THEN [r EXCEPT !.calls = Append(@, outcome), !.pc = "done",
                   !.out = Rejected(outcome.error)]
    ELSE [r EXCEPT !.calls = Append(@, outcome), !.pc = "wait",
                   !.waits = Append(@, r.delay)]

\* the timer fires: return withRetry(operation, retries - 1, delay * 2)
retryTimer(r) ==
    [r EXCEPT !.pc = "call", !.retries = @ - 1, !.delay = @ * 2]

\* withRetry run to its end against the outcomes of the successive
\* invocations
RECURSIVE retryRun(_, _)
retryRun(r, script) ==
    IF r.pc = "done" THEN r
    ELSE IF r.pc = "wait" THEN retryRun(retryTimer(r), script)
    ELSE retryRun(retryCall(r, Head(script)), Tail(script))

withRetry(script, retries, delay) ==
    retryRun(retryStart(retries, delay), script)

\* the texts the Gemini model answers with
ExplanationText == "explanation"

ProblemWithSolution == "**Problem:** P **Solution:** S"

ProblemOnly == "**Problem:** P"

DiagramData == "data:image/png;base64,DATA"

\* what each call returns from its catch block
fallback(fn) ==
    CASE fn = "generateExplanation" ->
             Some("Connection error. Please try again in a moment.")
      [] fn = "generateDiagram" -> Null
      [] fn = "generatePracticeProblem" ->
             Some("Error generating problem. Please check your connection.")

\* what each call returns from its try block for a response it can read
extract(fn, body) ==
    CASE fn = "generateExplanation" ->
             IF body = "empty"
             THEN Some("I couldn't generate an explanation at this moment.")
             ELSE Some(ExplanationText)
      [] fn = "generateDiagram" ->
             IF body = "full" THEN Some(DiagramData) ELSE Null
      [] fn = "generatePracticeProblem" ->
             IF body = "empty" THEN Some("Could not generate a problem.")
             ELSE IF body = "full" THEN Some(ProblemWithSolution)
             ELSE Some(ProblemOnly)

\* the rest of a call's try block once withRetry has settled with `out`:
\* a rejection, and an exception while the response is read, end in the
\* catch block
afterRetry(fn, out) ==
    IF out.k = "rejected" \/ out.v = "malformed"
    THEN Resolved(fallback(fn))
    ELSE Resolved(extract(fn, out.v))

\* a service call with getClient() in front of its try block
getClient_outsideTry(fn, key) ==
    IF key THEN Pending ELSE Rejected("API Key missing")

\* const client = getClient() inside the call's try block: without a key it
\* throws, and the call returns from its catch block
getClient(fn, key) ==
    IF key THEN Pending ELSE Resolved(fallback(fn))

\* how a call settles once withRetry has ended in the state r
settledAfter(fn, r) ==
    [settled |-> afterRetry(fn, r.out), calls |-> Len(r.calls),
     waits |-> r.waits]

\* a whole service call against the outcomes of its invocations: how its
\* promise settles, and the invocations and waits it made
settleWith(fn, client, script) ==
    IF client # Pending
    THEN [settled |-> client, calls |-> 0, waits |-> << >>]
    ELSE settledAfter(fn, withRetry(script, defaultRetries, defaultDelay))

serviceCall(fn, key, script) == settleWith(fn, getClient(fn, key), script)

---------------------------------------------------------------------------
(* One service call, step by step *)

\* withRetry called on its own; retries and delay keep the arguments
directCall(retries, delay) ==
    [fn |-> "withRetry", retries |-> retries, delay |-> delay,
     pc |-> "retry", r |-> retryStart(retries, delay), returned |-> Pending]

\* one of the three exported calls, about to run getClient
exportedCall(fn) ==
    [fn |-> fn, retries |-> defaultRetries, delay |-> defaultDelay,
     pc |-> "getClient", r |-> retryStart(defaultRetries, defaultDelay),
     returned |-> Pending]

ServiceNames ==
    {"generateExplanation", "generateDiagram", "generatePracticeProblem"}

RetryDelays == {defaultDelay, defaultDelay \div 2}

ServiceCalls ==
    {directCall(n, d) : n \in 0..MaxRetries, d \in RetryDelays}
    \cup {exportedCall(fn) : fn \in ServiceNames}

InitService ==
    /\ apiKey \in BOOLEAN
    /\ svc \in ServiceCalls
    /\ activeTopic = LENSES_MIRRORS
    /\ OpticsIdle
    /\ BenchIdle
    /\ PrismIdle
    /\ WaveIdle
    /\ LatexIdle
    /\ TutorIdle

ServiceStep(next) ==
    /\ svc' = next
    /\ UNCHANGED <<apiKey, tutorVars>>
    /\ UNCHANGED <<appVars, opticsVars, benchVars, prismVars, waveVars,
                   latexVars>>

\* the call after getClient(), which returned `client` or threw
clientGot(s, client) ==
    IF client = Pending THEN [s EXCEPT !.pc = "retry"]
    ELSE [s EXCEPT !.pc = "done", !.returned = client]

GetClient ==
    /\ svc.pc = "getClient"
    /\ ServiceStep(clientGot(svc, getClient(svc.fn, apiKey)))

\* the call after an invocation that left withRetry in the state r
invoked(s, r) ==
    IF r.pc # "done" THEN [s EXCEPT !.r = r]
    ELSE [s EXCEPT !.r = r, !.pc = "done",
                   !.returned = IF s.fn = "withRetry" THEN r.out
                                ELSE afterRetry(s.fn, r.out)]

\* await operation() settles
Invoke(outcome) ==
    /\ svc.pc = "retry"
    /\ svc.r.pc = "call"
    /\ ServiceStep(invoked(svc, retryCall(svc.r, outcome)))

\* the setTimeout of withRetry fires
TimerFires ==
    /\ svc.pc = "retry"
    /\ svc.r.pc = "wait"
    /\ ServiceStep([svc EXCEPT !.r = retryTimer(svc.r)])

NextService ==
    \/ GetClient
    \/ \E outcome \in Outcomes : Invoke(outcome)
    \/ TimerFires

SpecService == InitService /\ [][NextService]_vars

\* every pending invocation settles and every timer fires
SpecServiceFair == SpecService /\ WF_vars(NextService)


---------------------------------------------------------------------------
(* AiTutor under App (AiTutor.tsx, App.tsx:11-12, 47, 85)                  *)
(*                                                                         *)
(* A text is a sequence of pieces.  A message carries, besides the fields  *)
(* of ChatMessage, the session in which the request that produced it was   *)
(* issued: `session` counts the changes of mode and topic.                 *)

AppModes == {"EXPLORE", "PRACTICE", "EXAM"}

Topics == {LENSES_MIRRORS, INTERFERENCE, REFRACTION}

\* what the user types: a question, or a request for a drawing
InputTexts == {"hint", "draw"}

\* lowerInput.includes('draw') || .includes('diagram') || .includes('sketch')
asksDiagram(text) == text = "draw"

Message(role, text, sess) ==
    [role |-> role, text |-> text, isImage |-> FALSE,
     isHiddenSolution |-> FALSE, session |-> sess]

\* the message the initialisation effect sets the transcript to
greeting(m, topic, sess) ==
    Message("model",
            IF m = "EXAM" THEN <<"**EXAM SESSION STARTED**">>
            ELSE <<"Hello! I'm your AI Tutor. Topic: ", topic>>,
            sess)

\* the text of handleSend's catch block, its warning sign by name
NetworkError ==
    <<"<warning> Network error. ",
      "Please check your connection and try again.">>

\* problem.split("**Solution:**") for the texts of the model
split(problem) ==
    IF problem = ProblemWithSolution
    THEN <<"**Problem:** P ", " S">> ELSE <<problem>>

\* the messages handleGenerateProblem appends for the split problem
problemMessages(parts, sess) ==
    << Message("model", <<parts[1]>>, sess) >> \o
    (IF Len(parts) > 1
     THEN << [Message("model", <<"**Solution:**", parts[2]>>, sess)
                 EXCEPT !.isHiddenSolution = TRUE] >>
     ELSE << >>)

\* the outcomes of a call's successive invocations: success at once, success
\* at the last attempt, or failure throughout
failures(n) == [i \in 1..n |-> Rejects("error 1")]

Scripts ==
    {failures(n) \o <<Resolves(b)>> : n \in {0, defaultRetries}, b \in Bodies}
    \cup {failures(defaultRetries + 1)}

\* a service call awaiting its response
Request(id, fn, text, sess) ==
    [id |-> id, fn |-> fn, text |-> text, session |-> sess]

InitTutor ==
    /\ apiKey \in BOOLEAN
    /\ svc = Unsolved
    /\ activeTopic = LENSES_MIRRORS
    /\ appMode = "EXPLORE"
    /\ messages = << greeting("EXPLORE", LENSES_MIRRORS, 0) >>
    /\ input = ""
    /\ loading = FALSE
    /\ solutionRevealed = FALSE
    /\ requests = {}
    /\ issued = 0
    /\ session = 0
    /\ OpticsIdle
    /\ BenchIdle
    /\ PrismIdle
    /\ WaveIdle
    /\ LatexIdle

\* what no step of the tutor changes
OutsideTutor ==
    /\ UNCHANGED serviceVars
    /\ UNCHANGED <<opticsVars, benchVars, prismVars, waveVars, latexVars>>

\* onChange={(e) => setInput(e.target.value)}
TypeInput(text) ==
    /\ text # input
    /\ input' = text
    /\ UNCHANGED <<appMode, messages, loading, solutionRevealed, requests,
                   issued, session, activeTopic>>
    /\ OutsideTutor

\* handleSend up to its first await
handleSend ==
    /\ input # ""
    /\ issued < MaxRequests
    /\ messages' = Append(messages, Message("user", <<input>>, session))
    /\ input' = ""
    /\ loading' = TRUE
    /\ requests' = requests \cup
           {Request(issued + 1,
                    IF asksDiagram(input) THEN "generateDiagram"
                    ELSE "generateExplanation",
                    input, session)}
    /\ issued' = issued + 1
    /\ UNCHANGED <<appMode, solutionRevealed, session, activeTopic>>
    /\ OutsideTutor

\* the send button: disabled={loading || !input.trim()}
ClickSend ==
    /\ ~loading
    /\ handleSend

\* onKeyDown={(e) => e.key === 'Enter' && handleSend()}
PressEnter == handleSend

\* handleGenerateProblem up to its await, in the session sess
problemRequested(sess) ==
    /\ issued < MaxRequests
    /\ loading' = TRUE
    /\ solutionRevealed' = FALSE
    /\ requests' = requests \cup
           {Request(issued + 1, "generatePracticeProblem", "", sess)}
    /\ issued' = issued + 1

\* the Next Problem button, rendered unless the mode is EXPLORE
ClickNextProblem ==
    /\ appMode # "EXPLORE"
    /\ problemRequested(session)
    /\ UNCHANGED <<appMode, messages, input, session, activeTopic>>
    /\ OutsideTutor

\* the Reveal Solution button, rendered in EXAM mode while the solution is
\* not revealed
revealSolution ==
    /\ appMode = "EXAM"
    /\ ~solutionRevealed
    /\ solutionRevealed' = TRUE
    /\ messages' = [i \in DOMAIN messages |->
                       [messages[i] EXCEPT !.isHiddenSolution = FALSE]]
    /\ UNCHANGED <<appMode, input, loading, requests, issued, session,
                   activeTopic>>
    /\ OutsideTutor

\* the initialisation effect after a render with mode m and the topic
initialise(m, topic, sess) ==
    /\ messages' = << greeting(m, topic, sess) >>
    /\ IF m = "EXAM"
       THEN problemRequested(sess)
       ELSE UNCHANGED <<loading, solutionRevealed, requests, issued>>

\* App's mode buttons: onClick={() => setMode(m)}
SetAppMode(m) ==
    /\ m # appMode
    /\ session < MaxSessions
    /\ appMode' = m
    /\ session' = session + 1
    /\ initialise(m, activeTopic, session + 1)
    /\ UNCHANGED <<input, activeTopic>>
    /\ OutsideTutor

\* App's topic buttons: onClick={() => setActiveTopic(t)}
SetActiveTopic(t) ==
    /\ t # activeTopic
    /\ session < MaxSessions
    /\ activeTopic' = t
    /\ session' = session + 1
    /\ initialise(appMode, t, session + 1)
    /\ UNCHANGED <<appMode, input>>
    /\ OutsideTutor

\* what the continuation of an awaited call leaves alone
Continues ==
    /\ UNCHANGED <<appMode, input, solutionRevealed, issued, session,
                   activeTopic>>
    /\ OutsideTutor

\* handleGenerateProblem after its await; it has no catch block
problemArrives(req, res) ==
    /\ Continues
    /\ requests' = requests \ {req}
    /\ IF res.settled.k = "rejected"
       THEN UNCHANGED <<messages, loading>>
       ELSE /\ messages' = messages \o
                   problemMessages(split(res.settled.v.v), req.session)
            /\ loading' = FALSE

\* handleSend after await generateDiagram(..): an image ends it, null goes
\* on to generateExplanation
diagramArrives(req, res) ==
    /\ Continues
    /\ IF res.settled.k = "rejected"
       THEN /\ messages' =
                   Append(messages, Message("model", NetworkError, req.session))
            /\ loading' = FALSE
            /\ requests' = requests \ {req}
       ELSE IF res.settled.v # Null
       THEN /\ messages' = Append(messages,
                   [Message("model",
                            <<"![Generated Diagram](", res.settled.v.v, ")">>,
                            req.session) EXCEPT !.isImage = TRUE])
            /\ loading' = FALSE
            /\ requests' = requests \ {req}
       ELSE /\ requests' = (requests \ {req}) \cup
                   {[req EXCEPT !.fn = "generateExplanation"]}
            /\ UNCHANGED <<messages, loading>>

\* handleSend after await generateExplanation(..)
explanationArrives(req, res) ==
    /\ Continues
    /\ requests' = requests \ {req}
    /\ messages' =
           Append(messages,
                  Message("model",
                          IF res.settled.k = "rejected" THEN NetworkError
                          ELSE <<res.settled.v.v>>,
                          req.session))
    /\ loading' = FALSE

ProblemArrives ==
    \E req \in requests : \E script \in Scripts :
        /\ req.fn = "generatePracticeProblem"
        /\ problemArrives(req, serviceCall(req.fn, apiKey, script))

DiagramArrives ==
    \E req \in requests : \E script \in Scripts :
        /\ req.fn = "generateDiagram"
        /\ diagramArrives(req, serviceCall(req.fn, apiKey, script))

ExplanationArrives ==
    \E req \in requests : \E script \in Scripts :
        /\ req.fn = "generateExplanation"
        /\ explanationArrives(req, serviceCall(req.fn, apiKey, script))

NextTutor ==
    \/ \E text \in InputTexts \cup {""} : TypeInput(text)
    \/ ClickSend
    \/ PressEnter
    \/ ClickNextProblem
    \/ revealSolution
    \/ \E m \in AppModes : SetAppMode(m)
    \/ \E t \in Topics : SetActiveTopic(t)
    \/ ProblemArrives
    \/ DiagramArrives
    \/ ExplanationArrives

SpecTutor == InitTutor /\ [][NextTutor]_vars

---------------------------------------------------------------------------
(* Claims about the single-optic and two-lens solvers (under SpecSolver) *)

\* the signed focal length of the current non-plane optic, in ticks
CurrentF == (IF subType = "converging" THEN 1 ELSE -1) * focalLengthMag

SingleSolved == singleOpticMemo # Unsolved

TwoLensSolved == twoLensMemo # Unsolved

\* C1: for a non-plane optic, whenever |p - f| < 0.1 the reported image
\* distance is the infinite sentinel, never a large finite number.
C1_EpsilonGivesInfinity ==
    (SingleSolved /\ subType # "plane"
        /\ 10 * Abs(objDist - CurrentF) < TicksPerUnit)
    => singleOpticMemo.q = Infinity

\* C1 witness: a solved optic with the object off the focal point by less
\* than 0.1, reporting an infinite image distance
C1_Witness ==
    /\ SingleSolved /\ subType # "plane"
    /\ objDist # CurrentF
    /\ 10 * Abs(objDist - CurrentF) < TicksPerUnit
    /\ singleOpticMemo.q = Infinity

\* C2: for a non-plane optic, a finite reported q satisfies the thin-lens
\* equation q * (p - f) = p * f, and the magnification is -q / p.
C2_ThinLensEquation ==
    (SingleSolved /\ subType # "plane" /\ isFinite(singleOpticMemo.q))
    => LET q == singleOpticMemo.q
           m == singleOpticMemo.m
       IN  /\ q.n * (objDist - CurrentF) = objDist * CurrentF * q.d
           /\ isFinite(m)
           /\ m.n * objDist * q.d = (-q.n) * m.d

\* C2 witness: a solved optic with a finite, nonzero image distance off the
\* slider grid
C2_Witness ==
    /\ SingleSolved /\ subType = "converging"
    /\ isFinite(singleOpticMemo.q)
    /\ singleOpticMemo.q.d # 1
    /\ objDist < CurrentF

\* C3: a plane mirror reports q = -p, m = 1, Virtual, Upright for every
\* object distance, whatever the focal length and the optic kind hold.
C3_PlaneMirror ==
    (SingleSolved /\ subType = "plane")
    => /\ singleOpticMemo.q = Int2Num(-objDist)
       /\ singleOpticMemo.m = Int2Num(1)
       /\ singleOpticMemo.type = "Virtual"
       /\ singleOpticMemo.orientation = "Upright"

\* C3 witness: a solved plane optic whose object sits exactly at the focal
\* length slider's value, with the optic kind still 'lens'
C3_Witness ==
    /\ SingleSolved /\ subType = "plane" /\ opticType = "lens"
    /\ objDist = focalLengthMag
    /\ singleOpticMemo.q = Int2Num(-objDist)

\* C4: for a non-plane optic the nature is Real exactly when q > 0 and
\* Virtual otherwise, the optic kind does not change it, and the description
\* is 'Projectable on screen' iff the nature is Real.
C4_NatureFollowsSignOfQ ==
    (SingleSolved /\ subType # "plane")
    => /\ singleOpticMemo.type \in {"Real", "Virtual"}
       /\ (singleOpticMemo.type = "Real") <=> GtZero(singleOpticMemo.q)
       /\ (singleOpticMemo.description = "Projectable on screen")
              <=> (singleOpticMemo.type = "Real")

\* C4 witness: a solved mirror with a positive finite image distance,
\* reported Real
C4_Witness ==
    /\ SingleSolved /\ subType = "converging" /\ opticType = "mirror"
    /\ isFinite(singleOpticMemo.q) /\ singleOpticMemo.q.n > 0
    /\ singleOpticMemo.type = "Real"

\* C5: two-lens, object at lens 1's focal point: q1 and p2 are infinite,
\* q2 = f2 and the total magnification is -f2/f1, whatever the separation.
C5_CollimatedBranch ==
    (TwoLensSolved /\ objDist = focalLengthMag)
    => /\ twoLensMemo.q1 = Infinity
       /\ twoLensMemo.p2 = Infinity
       /\ twoLensMemo.q2 = Int2Num(lens2F)
       /\ isFinite(twoLensMemo.M_total)
       /\ twoLensMemo.M_total.n * focalLengthMag
              = (-lens2F) * twoLensMemo.M_total.d

\* C5 witness: a solved two-lens system with p1 = f1 and f2 # f1
C5_Witness ==
    /\ TwoLensSolved /\ objDist = focalLengthMag
    /\ lens2F # focalLengthMag
    /\ twoLensMemo.q1 = Infinity

\* C6: two-lens, finite q1: p2 = separation - q1; if |p2 - f2| < 0.1 then q2
\* and the total magnification are infinite; otherwise q2 = p2*f2/(p2 - f2)
\* and the total magnification is m1*m2 with m1 = -q1/p1 and m2 = -q2/p2
\* (which, as doubles, is NaN when p2 = 0).
C6_FiniteIntermediate ==
    (TwoLensSolved /\ isFinite(twoLensMemo.q1))
    => LET q1 == twoLensMemo.q1
           p2 == twoLensMemo.p2
           q2 == twoLensMemo.q2
           M  == twoLensMemo.M_total
           gap == Sub(p2, Int2Num(lens2F))
       IN  /\ q1.n * (objDist - focalLengthMag)
                  = objDist * focalLengthMag * q1.d
           /\ isFinite(p2)
           /\ p2.n * q1.d = (lensSep * q1.d - q1.n) * p2.d
           /\ IF 10 * Abs(gap.n) < TicksPerUnit * gap.d
              THEN q2 = Infinity /\ M = Infinity
              ELSE /\ isFinite(q2)
                   /\ Mul(q2, gap) = Mul(p2, Int2Num(lens2F))
                   /\ IF p2.n = 0
                      THEN M = NaN
                      ELSE /\ isFinite(M)
                           /\ Mul(M, Int2Num(objDist)) = Mul(q1, Div(q2, p2))

\* C6 witness: a solved two-lens system whose intermediate image is finite
\* and falls within 0.1 of, but not on, lens 2's focal plane
C6_Witness ==
    /\ TwoLensSolved /\ isFinite(twoLensMemo.q1)
    /\ Sub(twoLensMemo.p2, Int2Num(lens2F)).n # 0
    /\ twoLensMemo.q2 = Infinity
    /\ twoLensMemo.M_total = Infinity

\* a second C6 case: the far branch, with a finite total magnification
C6_FarBranchReached ==
    /\ TwoLensSolved /\ isFinite(twoLensMemo.q1)
    /\ isFinite(twoLensMemo.q2) /\ isFinite(twoLensMemo.M_total)
    /\ twoLensMemo.M_total.n # 0

---------------------------------------------------------------------------
(* Claims about the prism solver (under SpecPrism) *)

\* |(n1/n2) * sin(theta1)| > 1 for the current sliders
EntryCondition ==
    Abs(nEnv * Sin(Deg2Rad(incidentAngle))) > nPrism * TrigScale

Has(rec, fld) == fld \in DOMAIN rec

\* the result carries a critical angle that is a number
HasCritical == Has(prismMemo, "criticalAngle") /\ prismMemo.criticalAngle # Null

\* C7: whenever |(n1/n2)*sin(theta1)| > 1 the result is the entry-stage TIR
\* record, carrying no theta2, theta3, theta4, deviation or critical angle;
\* it differs from the exit-stage and complete outcomes, and it occurs only
\* when n1 > n2.
C7_EntryStageTIR ==
    /\ EntryCondition
           => /\ prismMemo.isTIR = TRUE
              /\ prismMemo.stage = "entry"
              /\ DOMAIN prismMemo = {"isTIR", "stage"}
    /\ prismMemo.stage \in {"entry", "exit", "complete"}
    /\ prismMemo.stage = "entry" => (EntryCondition /\ nEnv > nPrism)
    /\ prismMemo.stage # "entry"
           => {"theta2Rad", "theta3Rad", "theta4Rad"} \subseteq DOMAIN prismMemo

\* C7 witness: n1 = 1.5, n2 = 1.0 and an incident angle past the limit,
\* reported as entry-stage TIR
C7_Witness ==
    /\ nEnv = 150 /\ nPrism = 100 /\ incidentAngle >= 51
    /\ EntryCondition
    /\ prismMemo.stage = "entry"

\* C8: whenever |(n2/n1)*sin(theta3)| > 1 the result has isTIR = true and
\* stage 'exit', and carries no numeric theta4 and no numeric deviation.
C8_ExitStageUndefined ==
    (Has(prismMemo, "theta3Rad")
        /\ Abs(nPrism * Sin(prismMemo.theta3Rad)) > nEnv * TrigScale)
    => /\ prismMemo.isTIR = TRUE
       /\ prismMemo.stage = "exit"
       /\ ~Has(prismMemo, "theta4Rad")
       /\ ~Has(prismMemo, "deviationDeg")

\* what the code does hold for C8: the exit-stage flag and stage
C8_ExitStageFlagged ==
    (Has(prismMemo, "theta3Rad")
        /\ Abs(nPrism * Sin(prismMemo.theta3Rad)) > nEnv * TrigScale)
    <=> (prismMemo.isTIR = TRUE /\ prismMemo.stage = "exit")

\* C9: the result carries a critical angle exactly when the prism index is
\* strictly greater than the environment index; otherwise it is null or
\* absent, also in every entry-stage TIR result.  A critical angle that is
\* carried lies strictly between 0 and 90 degrees.
C9_CriticalAngleIffDenser ==
    /\ HasCritical <=> nPrism > nEnv
    /\ nPrism <= nEnv
           => (~Has(prismMemo, "criticalAngle")
                  \/ prismMemo.criticalAngle = Null)
    /\ prismMemo.stage = "entry" => ~Has(prismMemo, "criticalAngle")
    /\ HasCritical
           => (prismMemo.criticalAngle.v > 0
                  /\ prismMemo.criticalAngle.v < 90 * TrigScale)

\* C9 witness: equal indices, the result complete, the critical angle null
C9_Witness ==
    /\ nPrism = nEnv
    /\ prismMemo.stage = "complete"
    /\ prismMemo.criticalAngle = Null

\* a second C9 case: a denser prism in exit-stage TIR carries the angle
C9_DenserReached ==
    /\ nPrism > nEnv
    /\ prismMemo.stage = "exit"
    /\ HasCritical

---------------------------------------------------------------------------
(* Claims about the diffraction intensity (under SpecWave) *)

\* the sampled x whose screen position is y = 0
CentreXs == {x \in DOMAIN canvas.graph : yPos(x).n = 0}

\* C10: at screen position y = 0 the intensity is exactly 1, with
\* diffraction term 1 and interference term 1, for every wavelength, slit
\* width and separation and in both modes; and the canvas sampling loop does
\* sample y = 0.
C10_CentreIntensityIsOne ==
    canvas # Blank
    => /\ CentreXs # {}
       /\ \A x \in CentreXs :
              /\ canvas.graph[x] = TrigScale
              /\ x \in canvas.strips
              /\ diffraction(canvas.sampled.width,
                             canvas.sampled.wavelength, x) = TrigScale
              /\ interference(canvas.sampled.mode, canvas.sampled.separation,
                              canvas.sampled.wavelength, x) = TrigScale

\* C10 witness: a canvas painted in double mode at a wavelength and slit
\* width other than the initial ones, with intensity 1 at its centre sample
\* and less than 1 beside it
C10_Witness ==
    /\ canvas # Blank
    /\ canvas.sampled.mode = "double"
    /\ canvas.sampled.wavelength # 532
    /\ canvas.sampled.width # 10
    /\ canvas.graph[CanvasWidth \div 2] = TrigScale
    /\ canvas.graph[CanvasWidth \div 2 + SampleStep] < TrigScale

\* a second C10 case: the same in single mode
C10_SingleReached ==
    /\ canvas # Blank
    /\ canvas.sampled.mode = "single"
    /\ canvas.graph[CanvasWidth \div 2] = TrigScale

---------------------------------------------------------------------------
(* Claims about the order of clamping and sampling (under SpecWave) *)

\* C11: every execution of the draw effect in double mode samples the
\* intensity with separation > width: a configuration with d <= a is clamped
\* before it is sampled, never after.
C11_SampledSeparationExceedsWidth ==
    (canvas # Blank /\ canvas.sampled.mode = "double")
    => canvas.sampled.separation > canvas.sampled.width

\* the case C11 is about: the draw effect has just painted a double-slit
\* pattern with d <= a while the clamp's setSeparation is still queued
C11_SampledBeforeClamp ==
    /\ canvas # Blank
    /\ canvas.sampled.mode = "double"
    /\ canvas.sampled.separation <= canvas.sampled.width
    /\ pendingSep # Null

---------------------------------------------------------------------------
(* Claims about the labs' buttons, sliders and memos (under SpecLabs) *)

\* C17: derived results are never stale.  After any sequence of slider,
\* optic-kind, shape and system-mode changes in the optics and prism labs,
\* the single-optic, two-lens, slab and prism results, the ray list and the
\* prism geometry all equal the pure functions applied to the current input
\* values: every input a memoized computation reads is in its dependency
\* list.
C17_DerivedNeverStale ==
    /\ activeTopic = LENSES_MIRRORS
       => /\ singleOpticMemo = BenchDerived(BenchInputs).single
          /\ twoLensMemo = BenchDerived(BenchInputs).twoLens
          /\ slabMemo = BenchDerived(BenchInputs).slab
          /\ raysMemo = BenchDerived(BenchInputs).rays
    /\ activeTopic = REFRACTION
       => /\ prismMemo =
                 prismResult(nPrism, nEnv, angleA, incidentAngle)
          /\ vizMemo =
                 viz(angleA, prismResult(nPrism, nEnv, angleA, incidentAngle))

\* C17 witness: the two-lens system after the object height, the second
\* lens and the shape have been changed; the ray list is the one of the
\* current inputs and no longer the initial one
C17_Witness ==
    /\ activeTopic = LENSES_MIRRORS
    /\ systemMode = "two-lens"
    /\ objHeight # BenchDefaults.objHeight
    /\ lens2F # BenchDefaults.lens2F
    /\ subType = "diverging"
    /\ raysMemo = BenchDerived(BenchInputs).rays
    /\ raysMemo # BenchDerived(BenchDefaults).rays
    /\ twoLensMemo # BenchDerived(BenchDefaults).twoLens

\* a second C17 case: the prism lab after its apex and incident angles moved
C17_PrismReached ==
    /\ activeTopic = REFRACTION
    /\ angleA # PrismDefaults.angleA
    /\ incidentAngle # PrismDefaults.incidentAngle
    /\ vizMemo # viz(60, prismResult(150, 100, 60, 45))

\* a third C17 case: the slab after its index and thickness moved
C17_SlabReached ==
    /\ activeTopic = LENSES_MIRRORS
    /\ systemMode = "slab"
    /\ slabIndex # BenchDefaults.slabIndex
    /\ slabThickness # BenchDefaults.slabThickness
    /\ slabMemo # BenchDerived(BenchDefaults).slab

\* C18: in every state reachable by Lens/Mirror and Convex/Concave/Plane
\* button clicks, the shape plane is selected only while the optic kind is
\* mirror.
C18_PlaneOnlyForMirror ==
    (activeTopic = LENSES_MIRRORS /\ subType = "plane")
    => opticType = "mirror"

---------------------------------------------------------------------------
(* Claims about cleanLatex *)

\* str is base_{X} or base^{X} for a letter `base` and a body X without
\* braces
IsBracedScript(str, marker) ==
    /\ Len(str) >= 5
    /\ str[1] \in Letters
    /\ str[2] = marker
    /\ str[3] = "{"
    /\ str[Len(str)] = "}"
    /\ \A i \in 4..(Len(str) - 1) : str[i] \notin {"{", "}"}

scriptBody(str) == SubSeq(str, 4, Len(str) - 1)

\* str is base_c or base^c for a letter `base` and a letter or digit c
IsSimpleScript(str, marker) ==
    /\ Len(str) = 3
    /\ str[1] \in Letters
    /\ str[2] = marker
    /\ str[3] \in AlphaNumeric

AllMapped(X, map) == \A i \in DOMAIN X : X[i] \in DOMAIN map

Mapped(X, map) == [i \in DOMAIN X |-> map[X[i]]]

\* str is \frac{A}{B} for two runs A and B of letters, digits and Greek
\* letters
fracNumerator(str) == SubSeq(str, 7, runEnd(str, 7, TokenChars))

fracDenominator(str) ==
    SubSeq(str, runEnd(str, 7, TokenChars) + 3, Len(str) - 1)

IsTokenFraction(str) ==
    /\ StartsWith(str, <<"\\", "f", "r", "a", "c", "{">>)
    /\ fracNumerator(str) # << >>
    /\ fracDenominator(str) # << >>
    /\ \A i \in DOMAIN fracDenominator(str) :
           fracDenominator(str)[i] \in TokenChars
    /\ str = frac(fracNumerator(str), fracDenominator(str))

\* the string the structural loop starts from, and k passes over a string
loopInput(str) == applyKeys(initialCleanup(str), keys)

RECURSIVE passes(_, _)
passes(s, k) == IF k = 0 \/ s = << >> THEN s ELSE passes(pass(s), k - 1)

NoCommandLeft(s) == \A i \in DOMAIN s : s[i] # "\\"

\* C12: cleanLatex is idempotent on its output: whenever the text t it
\* returned holds no backslash command, cleanLatex(t) = t, for inputs with
\* nested or unbalanced braces too.
C12_CleanTextIsFixedPoint ==
    (recleaned # Unsolved /\ NoCommandLeft(cleaned.s))
    => recleaned.s = cleaned.s

\* C13: for every pair of tokens A and B that are runs of letters, digits
\* and Greek letters, \frac{A}{B} is cleaned to exactly A/B.
C13_FractionOfTokens ==
    (cleaned # Unsolved /\ IsTokenFraction(latex))
    => cleaned.s = fracNumerator(latex) \o <<"/">> \o fracDenominator(latex)

\* C13 witness: \frac{a}{b} has been cleaned to a/b
C13_Witness ==
    /\ latex = frac(<<"a">>, <<"b">>)
    /\ cleaned # Unsolved
    /\ cleaned.s = <<"a", "/", "b">>

\* a second C13 case: two-character tokens, a Greek letter among them
C13_LongTokensReached ==
    /\ latex = frac(<<"2", "<lambda>">>, <<"a", "2">>)
    /\ cleaned # Unsolved
    /\ cleaned.s = <<"2", "<lambda>", "/", "a", "2">>

\* C14: when every character of X has a subscript (superscript) glyph,
\* _{X} (^{X}) is replaced by the glyphs of X with the marker and the
\* braces removed, and a single letter or digit that has a glyph is
\* replaced the same way after a bare _ or ^.
C14_MappedScriptsBecomeGlyphs ==
    cleaned # Unsolved
    => /\ (IsBracedScript(latex, "_")
           /\ AllMapped(scriptBody(latex), subMap))
          => cleaned.s = <<latex[1]>> \o Mapped(scriptBody(latex), subMap)
       /\ (IsBracedScript(latex, "^")
           /\ AllMapped(scriptBody(latex), supMap))
          => cleaned.s = <<latex[1]>> \o Mapped(scriptBody(latex), supMap)
       /\ (IsSimpleScript(latex, "_") /\ latex[3] \in DOMAIN subMap)
          => cleaned.s = <<latex[1], subMap[latex[3]]>>
       /\ (IsSimpleScript(latex, "^") /\ latex[3] \in DOMAIN supMap)
          => cleaned.s = <<latex[1], supMap[latex[3]]>>

\* C14 witness: x^{2} has been cleaned to x with a superscript two
C14_Witness ==
    /\ latex = braced("x", "^", <<"2">>)
    /\ cleaned # Unsolved
    /\ cleaned.s = <<"x", "<sup 2>">>

\* further C14 cases: n_1, and a braced subscript of several characters
C14_SimpleSubscriptReached ==
    /\ latex = <<"n", "_", "1">>
    /\ cleaned # Unsolved
    /\ cleaned.s = <<"n", "<sub 1>">>

C14_LongSubscriptReached ==
    /\ latex = braced("f", "_", <<"n", "+", "2">>)
    /\ cleaned # Unsolved
    /\ cleaned.s = <<"f", "<sub n>", "<sub +>", "<sub 2>">>

\* C15: a backslash command that is not a supported one is returned
\* literally, backslash and full name intact: no supported command's
\* replacement is applied to a prefix of its name.
C15_UnsupportedPassThrough ==
    \A name \in UnsupportedNames :
        (latex = command(name) /\ cleaned # Unsolved)
        => cleaned.s = command(name)

\* C16: for every input cleanLatex returns a string, and its loop makes at
\* least 1 and at most 10 passes: every pass before the last changed the
\* string, and the last pass left it unchanged unless it was the 10th.
C16_LoopBounded ==
    cleaned # Unsolved
    => LET n == cleaned.loops
           s0 == loopInput(latex)
       IN  /\ cleaned.s \in Seq(STRING)
           /\ n \in 1..10
           /\ \A k \in 1..(n - 1) : passes(s0, k) # passes(s0, k - 1)
           /\ n < 10 => passes(s0, n) = passes(s0, n - 1)
           /\ cleaned.s = finish(passes(s0, n))

\* C16 witness: subscripts nested deeper than the ceiling; the loop stopped
\* after its 10th pass although that pass still changed the string
C16_Witness ==
    /\ latex = nested(11)
    /\ cleaned # Unsolved
    /\ cleaned.loops = 10
    /\ passes(loopInput(latex), 10) # passes(loopInput(latex), 9)
    /\ pass(passes(loopInput(latex), 10)) # passes(loopInput(latex), 10)

\* further C16 cases: a single pass that changes nothing on unbalanced
\* braces, on empty braces and on an unknown command
C16_UnbalancedReached ==
    /\ latex = <<"_", "{", "1">>
    /\ cleaned # Unsolved
    /\ cleaned.loops = 1

C16_EmptyBracesReached ==
    /\ latex = <<"_", "{", "}">>
    /\ cleaned # Unsolved
    /\ cleaned.loops = 1

C16_UnknownCommandReached ==
    /\ latex = command(<<"h", "b", "a", "r">>)
    /\ cleaned # Unsolved
    /\ cleaned.loops = 1

\* C19: when some character of X has no subscript glyph, _{X} is cleaned to
\* _X: the underscore is kept and no character of X is converted.
C19_BracedSubscriptFallback ==
    (/\ cleaned # Unsolved
     /\ IsBracedScript(latex, "_")
     /\ ~AllMapped(scriptBody(latex), subMap))
    => cleaned.s = <<latex[1], "_">> \o scriptBody(latex)

\* C20, in the words of the specification: when some character of X has no
\* superscript glyph, ^{X} is cleaned to ^X, and ^{<degree>} to the degree
\* sign alone.
C20_FallbackIsCaretX ==
    cleaned # Unsolved
    => /\ (IsBracedScript(latex, "^")
           /\ ~AllMapped(scriptBody(latex), supMap))
          => cleaned.s = <<latex[1], "^">> \o scriptBody(latex)
       /\ latex = <<"9", "0", "^", "{", "<degree>", "}">>
          => cleaned.s = <<"9", "0", "<degree>">>

\* C20: when some character of X has no superscript glyph, base^{X} at the
\* end of the text is cleaned to ^(X), the caret kept, X in parentheses and
\* none of its characters converted, except that an X of one letter, digit
\* or underscore is cleaned to ^X; ^{<degree>} is cleaned to the degree
\* sign with no caret.
C20_FallbackIsParenthesized ==
    cleaned # Unsolved
    => /\ (IsBracedScript(latex, "^")
           /\ ~AllMapped(scriptBody(latex), supMap))
          => cleaned.s =
                 IF /\ Len(scriptBody(latex)) = 1
                    /\ scriptBody(latex)[1] \in WordChars
                 THEN <<latex[1], "^">> \o scriptBody(latex)
                 ELSE <<latex[1], "^", "(">> \o scriptBody(latex)
                      \o <<")">>
       /\ latex = <<"9", "0", "^", "{", "<degree>", "}">>
          => cleaned.s = <<"9", "0", "<degree>">>

\* C20 witness: x^{ff} has been cleaned to x^(ff)
C20_Witness ==
    /\ latex = braced("x", "^", <<"f", "f">>)
    /\ cleaned # Unsolved
    /\ cleaned.s = <<"x", "^", "(", "f", "f", ")">>

\* further C20 cases: a single letter, a single other character, and the
\* degree sign
C20_SingleLetterReached ==
    /\ latex = braced("x", "^", <<"e">>)
    /\ cleaned # Unsolved
    /\ cleaned.s = <<"x", "^", "e">>

C20_SingleOtherReached ==
    /\ latex = braced("x", "^", <<"/">>)
    /\ cleaned # Unsolved
    /\ cleaned.s = <<"x", "^", "(", "/", ")">>

C20_DegreeReached ==
    /\ latex = <<"9", "0", "^", "{", "<degree>", "}">>
    /\ cleaned # Unsolved
    /\ cleaned.s = <<"9", "0", "<degree>">>


\* C21: every command of the symbol table, given as the whole input, is
\* cleaned to its glyph: no shorter table command and no earlier stage
\* consumes a part of it.
C21_TableCommandsBecomeGlyphs ==
    \A i \in DOMAIN symbolMap :
        (latex = symbolMap[i].key /\ cleaned # Unsolved)
        => cleaned.s = symbolMap[i].glyph


---------------------------------------------------------------------------
(* Claims about the wave lab's effects *)

\* C22: what the draw effect samples in single mode does not depend on the
\* separation: at every sampled position the intensity is the one sampled
\* with the same width and wavelength and the greatest separation of the
\* slider, so any two separations give the same samples.
C22_SingleSlitIndependent ==
    (canvas # Blank /\ canvas.sampled.mode = "single")
    => canvas.graph =
           [x \in SampleXs |->
               intensity("single", SeparationMax, canvas.sampled.width,
                         canvas.sampled.wavelength, x)]

\* a single-slit drawing sampled with another separation, for values whose
\* double-slit drawing is a different graph
C22_Witness ==
    /\ canvas # Blank
    /\ canvas.sampled.mode = "single"
    /\ canvas.sampled.separation # SeparationMax
    /\ canvas.graph # drawCanvas("double", canvas.sampled.separation,
                                 canvas.sampled.width,
                                 canvas.sampled.wavelength).graph


\* the clamp effect is about to run and will call setSeparation
ClampFires == wavePc = "clamp" /\ mode = "double" /\ separation <= width

\* C23: when the clamp effect runs in double mode with separation <= width
\* it queues width + 5, the render that applies the update leaves a
\* separation above the width, so the clamp does not fire again; in every
\* state with no effect or update pending and mode = double, the separation
\* is above the width and at most 100; in single mode no step changes the
\* separation and the clamp queues no update.
C23_ClampConverges ==
    /\ [](wavePc = "idle" /\ mode = "double"
          => separation > width /\ separation <= SeparationMax)
    /\ [][ClampFires => pendingSep' = Some(width + 5)]_vars
    /\ [][wavePc = "render"
          => /\ separation' = width + 5
             /\ ~ClampFires']_vars
    /\ [][mode = "single"
          => separation' = separation /\ pendingSep' = pendingSep]_vars

\* the clamp effect has fired: its update is queued for the next render
C23_Witness ==
    /\ wavePc = "render"
    /\ mode = "double"
    /\ separation <= width
    /\ pendingSep = Some(width + 5)

\* ... and was applied, and both effects ran again with no further update
C23_SettledReached ==
    /\ wavePc = "idle"
    /\ mode = "double"
    /\ pendingSep = Null
    /\ canvas # Blank
    /\ canvas.sampled.separation = WidthMax + 5
    /\ width = WidthMax

\* the clamp effect ran in single mode with separation <= width
C23_SingleReached ==
    /\ wavePc = "draw"
    /\ mode = "single"
    /\ separation <= width
    /\ pendingSep = Null


---------------------------------------------------------------------------
(* Further claims about the imaging solvers (under SpecSolver) *)

\* the length v (in ticks) is a position of a slider with the given range
\* and step (in length units)
OnSlider(v, min, max, step) ==
    /\ v % (step * TicksPerUnit) = min * TicksPerUnit % (step * TicksPerUnit)
    /\ min * TicksPerUnit <= v
    /\ v <= max * TicksPerUnit

\* the Object Distance and Focal Length sliders of single mode
\* (part_002:341, 364)
OnSingleSliders ==
    /\ OnSlider(objDist, 10, 400, 5)
    /\ OnSlider(focalLengthMag, 10, 300, 5)

\* the sliders of two-lens mode (part_002:341, 379, 386, 393)
OnTwoLensSliders ==
    /\ OnSlider(objDist, 10, 400, 5)
    /\ OnSlider(focalLengthMag, 20, 200, 5)
    /\ OnSlider(lens2F, 20, 200, 5)
    /\ OnSlider(lensSep, 50, 500, 10)

\* C24: for a non-plane optic with p and f on their sliders, the nature is
\* Real exactly when the orientation is Inverted, also with the object on
\* the focal point.
C24_RealIffInverted ==
    (SingleSolved /\ subType # "plane" /\ OnSingleSliders)
    => ((singleOpticMemo.type = "Real")
           <=> (singleOpticMemo.orientation = "Inverted"))

\* C25: for a two-lens configuration on the sliders, a finite reported q2
\* comes with a finite total magnification.
C25_FiniteMagnification ==
    (TwoLensSolved /\ OnTwoLensSliders /\ isFinite(twoLensMemo.q2))
    => isFinite(twoLensMemo.M_total)


---------------------------------------------------------------------------
(* Claims about the tutor service (under SpecService, SpecServiceFair) *)

\* the invocations withRetry has made follow its protocol
RetryProtocol ==
    LET r == svc.r
        k == Len(r.calls)
    IN  /\ k <= svc.retries + 1
        /\ \A i \in 1..(k - 1) : ~r.calls[i].ok
        /\ Len(r.waits) = IF r.pc = "done" /\ k > 0 THEN k - 1 ELSE k
        /\ \A i \in 1..Len(r.waits) : r.waits[i] = svc.delay * 2 ^ (i - 1)
        /\ (r.pc = "done")
               => /\ k > 0
                  /\ IF r.calls[k].ok
                     THEN r.out = Resolved(r.calls[k].body)
                     ELSE /\ k = svc.retries + 1
                          /\ r.out = Rejected(r.calls[k].error)
        /\ (svc.fn = "withRetry" /\ svc.pc = "done") => svc.returned = r.out

C26_SuccessReached ==
    /\ svc.fn = "withRetry"
    /\ svc.pc = "done"
    /\ Len(svc.r.calls) = 3
    /\ svc.r.waits = <<svc.delay, 2 * svc.delay>>
    /\ svc.returned = Resolved("full")


\* C27: the tutor's service calls never reject: whatever the invocations
\* of the API do, a finished generateExplanation or
\* generatePracticeProblem has resolved to a string and a finished
\* generateDiagram to a string or null; without an API key the call never
\* enters withRetry, makes no invocation and sets no timer, and returns
\* its fallback value.
C27_ServiceNeverRejects ==
    svc.fn \in ServiceNames =>
        /\ svc.pc = "done" =>
               /\ svc.returned.k = "resolved"
               /\ svc.returned.v = Null => svc.fn = "generateDiagram"
        /\ ~apiKey =>
               /\ svc.pc # "retry"
               /\ svc.r.calls = << >>
               /\ svc.r.waits = << >>
               /\ svc.pc = "done" =>
                      svc.returned = Resolved(fallback(svc.fn))

\* without a key an exported call has returned
C27_Witness ==
    /\ ~apiKey
    /\ svc.fn \in ServiceNames
    /\ svc.pc = "done"

\* with a key, all four invocations failed and the call returned its
\* fallback value
C27_AllFailedReached ==
    /\ apiKey
    /\ svc.fn \in ServiceNames
    /\ svc.pc = "done"
    /\ Len(svc.r.calls) = defaultRetries + 1
    /\ svc.returned = Resolved(fallback(svc.fn))

---------------------------------------------------------------------------
(* Claims about the tutor's transcript *)

\* the consequence of C27 for the tutor: the transcript never holds the
\* message of handleSend's catch block
NetworkErrorNeverShown ==
    \A i \in DOMAIN messages : messages[i].text # NetworkError

\* without a key a question has been answered with the fallback text
FallbackShown ==
    /\ ~apiKey
    /\ \E i \in DOMAIN messages :
           messages[i].text = <<fallback("generateExplanation").v>>

\* C28: whenever solutionRevealed is true, no message of the transcript
\* has isHiddenSolution = true.
C28_NoHiddenOnceRevealed ==
    solutionRevealed =>
        \A i \in DOMAIN messages : ~messages[i].isHiddenSolution

\* C29: loading is true exactly while a tutor request is outstanding, and
\* at most one handleSend request is in flight.
C29_LoadingTracksRequests ==
    /\ loading <=> requests # {}
    /\ Cardinality({req \in requests :
                       req.fn # "generatePracticeProblem"}) <= 1

\* C30: after a mode or topic change, every message of the transcript
\* comes from the current session: no response to a request issued before
\* the change is appended to the new transcript.
C30_TranscriptOfThisSession ==
    \A i \in DOMAIN messages : messages[i].session = session

===========================================================================
